---------------------------- MODULE Spec2Model ----------------------------
(***************************************************************************)
(* Repo2Data: provider registry, per-spec download orchestration, the      *)
(* global cache store and the batch manager.                               *)
(*                                                                         *)
(* A source locator is a sequence of fragments; every can_handle regex of  *)
(* the providers is evaluated on that sequence.  A cache key is the        *)
(* record of the critical fields present in a config (SHA-256 of their     *)
(* canonical JSON, taken as injective).                                    *)
(***************************************************************************)
EXTENDS Integers, Sequences, FiniteSets, TLC

(***************************************************************************)
(* Bounds of the model.                                                    *)
(***************************************************************************)
MaxRegistered == 2
MaxBatch == 3
\* Rows the store may hold when a download through an external tool starts.
MaxCachedExternal == 1

(***************************************************************************)
(* Values standing for "absent".                                           *)
(***************************************************************************)
NoSelection == [kind |-> "none"]
NoCall == [sel |-> NoSelection]

(***************************************************************************)
(* Source locators.                                                        *)
(***************************************************************************)
EmptySource == << >>
PlainSource == <<"x">>
HttpUrl == <<"https://", "x">>
HttpUrl2 == <<"http://", "y">>
GitUrl == <<"https://", "x", ".git">>
SshGit == <<"x", ".git">>
GDriveUrl == <<"https://", "drive.google.com", "x">>
OsfUrl == <<"https://", "osf.io", "x">>
OsfHttpUrl == <<"http://", "osf.io", "x">>
S3Url == <<"s3://", "x">>
ZenodoDoi == <<"10.5281/zenodo", "x">>
ZenodoUrl == <<"https://", "x", "10.5281/zenodo">>
ImportCmd == <<"import", "x", ";">>
ImportHttp == <<"import", "https://", "x", ";">>

Sources ==
    { EmptySource, PlainSource, HttpUrl, HttpUrl2, GitUrl, SshGit, GDriveUrl,
      OsfUrl, OsfHttpUrl, S3Url, ZenodoDoi, ZenodoUrl, ImportCmd, ImportHttp }

ProviderClasses ==
    { "HTTPProvider", "DataladProvider", "GoogleDriveProvider", "S3Provider",
      "ZenodoProvider", "OSFProvider", "LibraryProvider" }

\* The registrations executed when the downloader module is imported.
DownloaderRegistration ==
    << "HTTPProvider", "DataladProvider", "GoogleDriveProvider", "S3Provider",
       "ZenodoProvider", "OSFProvider", "LibraryProvider" >>

VARIABLES
    providers,      \* ProviderRegistry._providers, in registration order
    libraryEnabled, \* LibraryProvider.ENABLED
    lastSel,        \* the latest get_provider call: arguments and outcome
    memoSel,        \* the call before it, when it asked for the same source
    store,          \* rows of the cache_entries table
    disk,           \* destination directories on disk
    pc,             \* position of the running download()
    cur,            \* DatasetDownloader.config
    destination,    \* DatasetDownloader.destination
    provider,       \* provider instance returned by get_provider
    http,           \* HTTPProvider.download loop state
    dlResult,       \* what download() returned or raised
    invoked,        \* provider.download() invocations of the running call
    checked,        \* what the cache check of the running call found
    warnings,       \* failures download() only logged: "extract", "save"
    stages,         \* later stages the running call has entered: "extract", "save"
    memoRun,        \* one earlier download() that fetched and saved
    fetchOk,        \* keys whose latest provider fetch completed
    executed,       \* this process ran a source as Python code
    mpc,            \* position of DatasetManager.install
    batch,          \* the ordered downloads of install()
    idx,            \* how many of them the loop has taken
    results,        \* DatasetManager.install results list
    okLog,          \* config and outcome of every finished download() of the batch
    storeMode,      \* whether the cache directory and database are usable
    localCaches,    \* legacy local cache files present in data directories
    lastOp,         \* the latest direct call of the cache store: arguments and outcome
    cdCall,         \* the latest _compute_destination: arguments and outcome
    cleanCall,      \* a clean_orphaned_entries call in progress on one handle
    readerSeen,     \* what list_all_cached on another handle returned meanwhile
    inv,            \* download() calls running concurrently on one spec
    xfer,           \* the artifact's ".tmp" and final directory entries and their files
    connection,     \* GlobalCacheManager._thread_local.connection: the database it is open on
    databases,      \* the cache.db file of every cache directory
    handles,        \* the GlobalCacheManager instances alive in the thread
    handleOp,       \* the latest operation on a handle and the database it acted on
    resolver,       \* a FigshareProvider or DataverseProvider download() and its directory
    gdrive          \* a GoogleDriveProvider download() and the process working directory

regVars == << providers, libraryEnabled, lastSel, memoSel >>
diskVars == << store, disk >>
dlVars == << pc, cur, destination, provider, http, dlResult, invoked, checked, warnings,
            stages >>
histVars == << memoRun, fetchOk, executed >>
mgrVars == << mpc, batch, idx, results, okLog >>
envVars == << storeMode, localCaches, lastOp, cdCall >>
handleVars == << connection, databases, handles, handleOp >>
concVars == << cleanCall, readerSeen, inv, xfer, handleVars, resolver, gdrive >>
vars == << regVars, diskVars, dlVars, histVars, mgrVars, envVars, concVars >>

(***************************************************************************)
(* Regular expressions of the can_handle predicates.                       *)
(***************************************************************************)
Contains(s, t) == \E i \in 1..Len(s) : s[i] = t

ContainsAdjacent(s, t1, t2) ==
    \E i \in 1..(Len(s) - 1) : s[i] = t1 /\ s[i + 1] = t2

ContainsThenLater(s, t1, t2) ==
    \E i \in 1..Len(s) : \E j \in (i + 1)..Len(s) : s[i] = t1 /\ s[j] = t2

EndsWith(s, t) == Len(s) > 0 /\ s[Len(s)] = t

HTTPCanHandle(source) ==
    LET is_http == Contains(source, "http://") \/ Contains(source, "https://")
        is_git == EndsWith(source, ".git")
        is_gdrive == Contains(source, "drive.google.com")
        is_osf == ContainsAdjacent(source, "https://", "osf.io")
    IN  IF ~is_http THEN FALSE ELSE ~(is_git \/ is_gdrive \/ is_osf)

DataladCanHandle(source) == EndsWith(source, ".git")

GoogleDriveCanHandle(source) == Contains(source, "drive.google.com")

S3CanHandle(source) == Contains(source, "s3://")

ZenodoCanHandle(source) == Contains(source, "10.5281/zenodo")

OSFCanHandle(source) == ContainsAdjacent(source, "https://", "osf.io")

LibraryCanHandle_IgnoresEnabled(source) ==
    ContainsThenLater(source, "import", ";")

LibraryCanHandle(source) ==
    IF ~libraryEnabled THEN FALSE ELSE ContainsThenLater(source, "import", ";")

\* can_handle of a temporary instance cls(config, dest).
CanHandle_UsesConfigSrc(cls, source, config, dest) ==
    CASE cls = "HTTPProvider" -> HTTPCanHandle(config.src)
      [] cls = "DataladProvider" -> DataladCanHandle(config.src)
      [] cls = "GoogleDriveProvider" -> GoogleDriveCanHandle(config.src)
      [] cls = "S3Provider" -> S3CanHandle(config.src)
      [] cls = "ZenodoProvider" -> ZenodoCanHandle(config.src)
      [] cls = "OSFProvider" -> OSFCanHandle(config.src)
      [] cls = "LibraryProvider" -> LibraryCanHandle(config.src)

CanHandle(cls, source, config, dest) ==
    CASE cls = "HTTPProvider" -> HTTPCanHandle(source)
      [] cls = "DataladProvider" -> DataladCanHandle(source)
      [] cls = "GoogleDriveProvider" -> GoogleDriveCanHandle(source)
      [] cls = "S3Provider" -> S3CanHandle(source)
      [] cls = "ZenodoProvider" -> ZenodoCanHandle(source)
      [] cls = "OSFProvider" -> OSFCanHandle(source)
      [] cls = "LibraryProvider" -> LibraryCanHandle(source)

(***************************************************************************)
(* ProviderRegistry.get_provider: scan in reverse registration order.      *)
(***************************************************************************)
NoProviderError(source) ==
    [kind |-> "error", error |-> "ValueError", source |-> source,
     available |-> providers]

Selected(cls, source) ==
    [kind |-> "provider", cls |-> cls, source |-> source]

RECURSIVE ScanReversed(_, _, _, _)
ScanReversed(i, source, config, dest) ==
    IF i = 0 THEN NoProviderError(source)
    ELSE IF CanHandle(providers[i], source, config, dest)
         THEN Selected(providers[i], source)
         ELSE ScanReversed(i - 1, source, config, dest)

RECURSIVE ScanForward(_, _, _, _)
ScanForward(i, source, config, dest) ==
    IF i > Len(providers) THEN NoProviderError(source)
    ELSE IF CanHandle(providers[i], source, config, dest)
         THEN Selected(providers[i], source)
         ELSE ScanForward(i + 1, source, config, dest)

GetProvider_FirstRegistered(source, config, dest) ==
    ScanForward(1, source, config, dest)

GetProvider_FallsBackToHTTP(source, config, dest) ==
    LET r == ScanReversed(Len(providers), source, config, dest) IN
    IF r.kind = "error" THEN Selected("HTTPProvider", source) ELSE r

GetProvider(source, config, dest) ==
    ScanReversed(Len(providers), source, config, dest)

(***************************************************************************)
(* Configs (download specs): dictionaries, a field is present or not.      *)
(***************************************************************************)
CRITICAL_FIELDS == {"src", "projectName", "version"}

BatchSources == { HttpUrl, S3Url, PlainSource, ImportCmd, EmptySource }

FieldValues ==
    [src : BatchSources, projectName : {"p1"}, version : {"1"},
     dst : {<<"d1">>}, checksum : {"c"}]

FieldSets ==
    { P \in SUBSET {"src", "projectName", "dst", "checksum"} :
        /\ P # {}
        /\ "checksum" \in P => P = {"src", "projectName", "checksum"} }

Configs ==
    { c \in UNION { { [f \in P |-> v[f]] : v \in FieldValues } : P \in FieldSets } :
        "checksum" \in DOMAIN c => c.src = HttpUrl }

NoConfig == [idle |-> TRUE]

\* config.get(field, default)
Get(config, field, default) ==
    IF field \in DOMAIN config THEN config[field] ELSE default

(***************************************************************************)
(* Paths: sequences of components.                                         *)
(***************************************************************************)
NoPath == << >>
Cwd == <<"/", "w">>
RequirementPath == <<"/", "w", "data_requirement.json">>

IsAbsolute(p) == Len(p) > 0 /\ p[1] = "/"

Parent(p) == IF Len(p) = 0 THEN p ELSE SubSeq(p, 1, Len(p) - 1)

\* Path.resolve(): a relative path is taken against the working directory.
Resolve(p) == IF IsAbsolute(p) THEN p ELSE Cwd \o p

(***************************************************************************)
(* DatasetDownloader._compute_destination                                  *)
(***************************************************************************)
ComputeDestination_DstBeforeLayout(config, server_mode, server_destination, requirement_path, requirement_exists) ==
    IF "projectName" \notin DOMAIN config
    THEN [ok |-> FALSE, error |-> "MissingProjectName", path |-> NoPath]
    ELSE LET project_name == <<config.projectName>> IN
         IF server_mode
         THEN [ok |-> TRUE, error |-> "", path |-> server_destination \o project_name]
         ELSE IF "dst" \in DOMAIN config
         THEN LET dst_path ==
                    IF ~IsAbsolute(config.dst) /\ requirement_path # NoPath
                    THEN Resolve(Parent(requirement_path) \o config.dst)
                    ELSE config.dst
              IN  [ok |-> TRUE, error |-> "", path |-> dst_path \o project_name]
         ELSE IF /\ "dataLayout" \in DOMAIN config
                 /\ requirement_path # NoPath
                 /\ requirement_exists
                 /\ config.dataLayout = "neurolibre"
         THEN [ok |-> TRUE, error |-> "",
               path |-> Parent(Parent(Resolve(requirement_path)))
                            \o <<"data">> \o project_name]
         ELSE [ok |-> TRUE, error |-> "", path |-> <<"data">> \o project_name]

ComputeDestination(config, server_mode, server_destination, requirement_path, requirement_exists) ==
    IF "projectName" \notin DOMAIN config
    THEN [ok |-> FALSE, error |-> "MissingProjectName", path |-> NoPath]
    ELSE LET project_name == <<config.projectName>> IN
         IF server_mode
         THEN [ok |-> TRUE, error |-> "", path |-> server_destination \o project_name]
         ELSE IF /\ "dataLayout" \in DOMAIN config
                 /\ requirement_path # NoPath
                 /\ requirement_exists
                 /\ config.dataLayout = "neurolibre"
         THEN [ok |-> TRUE, error |-> "",
               path |-> Parent(Parent(Resolve(requirement_path)))
                            \o <<"data">> \o project_name]
         ELSE IF "dst" \in DOMAIN config
         THEN LET dst_path ==
                    IF ~IsAbsolute(config.dst) /\ requirement_path # NoPath
                    THEN Resolve(Parent(requirement_path) \o config.dst)
                    ELSE config.dst
              IN  [ok |-> TRUE, error |-> "", path |-> dst_path \o project_name]
         ELSE [ok |-> TRUE, error |-> "", path |-> <<"data">> \o project_name]

\* The destination of a downloader built by the manager for this config.
DestinationOf(config) ==
    ComputeDestination(config, FALSE, <<"data">>, RequirementPath, TRUE)

Destinations ==
    { Resolve(DestinationOf(c).path) : c \in { d \in Configs : DestinationOf(d).ok } }

(***************************************************************************)
(* Directories on disk.  final: artifacts completely present (by source);  *)
(* tmp: ".tmp" siblings left by the HTTP fetch; partial: artifacts an      *)
(* external tool left half written.                                        *)
(***************************************************************************)
NoDir == [exists |-> FALSE, final |-> {}, tmp |-> {}, partial |-> {}]
EmptyDir == [exists |-> TRUE, final |-> {}, tmp |-> {}, partial |-> {}]

PathExists(p) == Resolve(p) \in DOMAIN disk /\ disk[Resolve(p)].exists

\* Path.mkdir(parents=True, exist_ok=True)
Mkdir(d, p) ==
    IF d[Resolve(p)].exists THEN d ELSE [d EXCEPT ![Resolve(p)] = EmptyDir]

\* The files a recursive walk of the directory finds.
FileCount(dir) ==
    Cardinality(dir.final \cup dir.partial) + Cardinality(dir.tmp)

\* The sum of st_size over the same walk: a complete artifact weighs two
\* units, a temporary or half written one weighs one.
DirSize(dir) ==
    2 * Cardinality(dir.final) + Cardinality(dir.partial \ dir.final)
        + Cardinality(dir.tmp)

(***************************************************************************)
(* GlobalCacheManager                                                      *)
(***************************************************************************)
\* compute_cache_key: the critical fields the config has.
CacheKey_AllFields(config) == config

CacheKey_IgnoresVersion(config) ==
    [f \in (DOMAIN config \cap {"src", "projectName"}) |-> config[f]]

CacheKey(config) ==
    [f \in (DOMAIN config \cap CRITICAL_FIELDS) |-> config[f]]

RowsOf(st, key) == { r \in st : r.cache_key = key }

\* _remove_entry: DELETE FROM cache_entries WHERE cache_key = ?
RemoveEntry(st, key) == { r \in st : r.cache_key # key }

\* is_cached: the answer and the store it leaves.
IsCached_TrustsRow(st, config, dest) ==
    LET key == CacheKey(config)
        rows == RowsOf(st, key)
    IN  IF rows # {} THEN [hit |-> TRUE, store |-> st]
        ELSE [hit |-> FALSE, store |-> st]

IsCached(st, config, dest) ==
    LET key == CacheKey(config)
        rows == RowsOf(st, key)
    IN  IF rows # {}
        THEN LET row == CHOOSE r \in rows : TRUE IN
             IF PathExists(row.destination_path)
             THEN [hit |-> TRUE,
                   store |-> (st \ {row}) \cup {[row EXCEPT !.last_accessed = "later"]}]
             ELSE [hit |-> FALSE, store |-> RemoveEntry(st, key)]
        ELSE [hit |-> FALSE, store |-> st]

\* save_cache: INSERT OR REPLACE of the row of the key.
NewRow(config, dest, d) ==
    [cache_key |-> CacheKey(config),
     destination_path |-> Resolve(dest),
     config |-> config,
     size_bytes |-> IF d[Resolve(dest)].exists THEN DirSize(d[Resolve(dest)]) ELSE 0,
     file_count |-> IF d[Resolve(dest)].exists THEN FileCount(d[Resolve(dest)]) ELSE 0,
     last_accessed |-> "at_save"]

SaveCacheRows_PlainInsert(st, config, dest, d) ==
    st \cup { NewRow(config, dest, d) }

SaveCacheRows_AddsToSize(st, config, dest, d) ==
    LET old == RowsOf(st, CacheKey(config))
        new == NewRow(config, dest, d)
    IN  RemoveEntry(st, CacheKey(config))
          \cup { IF old = {} THEN new
                 ELSE [new EXCEPT !.size_bytes = @ + (CHOOSE r \in old : TRUE).size_bytes] }

SaveCacheRows(st, config, dest, d) ==
    RemoveEntry(st, CacheKey(config)) \cup { NewRow(config, dest, d) }

(***************************************************************************)
(* Results of download() and state of the HTTP retry loop.                 *)
(***************************************************************************)
max_retries == 3
retry_delay == 5

NoResult == [kind |-> "none"]
Returned(path, via, saved) ==
    [kind |-> "path", path |-> path, via |-> via, saved |-> saved]
Raised(err) == [kind |-> "error", error |-> err]

HttpIdle ==
    [retry |-> 0, requests |-> 0, delays |-> << >>, bytes |-> "none", space |-> "ok",
     refused |-> "no", commands |-> 0]

NoRun == [kind |-> "none"]
NoOp == [op |-> "none"]
NoClean ==
    [pc |-> "idle", entries |-> {}, doomed |-> {}, removed |-> {}, live |-> {}, count |-> 0]
\* Concurrent download() calls, and the chunks of one HTTP body.
Invocations == {1, 2}
TransferChunks == 2
InvIdle ==
    [pc |-> "idle", node |-> 0, offset |-> 0, wrote |-> {}, purged |-> {}, live |-> {},
     result |-> "none"]
NoFile == [c \in 1..TransferChunks |-> FALSE]
\* Files (inodes) a directory entry or an open handle may refer to.
Nodes == 1..3
NoXfer == [tmp |-> 0, final |-> 0, data |-> [n \in Nodes |-> NoFile]]
\* GlobalCacheManager instances and the cache_dir each was given.
Handles == {1, 2, 3}
CacheDirOf(h) == IF h = 2 THEN "custom" ELSE "default"
CacheDirs == {"default", "custom"}
NoDatabase == [file |-> FALSE, table |-> FALSE, rows |-> {}]
\* A resolver download that has not started, its destination empty.
ResolverIdle ==
    [pc |-> "idle", cls |-> "none", files |-> << >>, i |-> 0, final |-> {}, partial |-> {},
     tmp |-> {}, checked |-> {}, error |-> "none"]
\* No Google Drive download running; the process is in Cwd.
GDriveIdle ==
    [pc |-> "idle", cwd |-> Cwd, original_cwd |-> NoPath, before |-> Cwd,
     dest |-> NoPath, result |-> "none", later |-> NoOp]

Key == CacheKey(cur)
Src == Get(cur, "src", EmptySource)
Dest == Resolve(destination)

(***************************************************************************)
(* Initial state: the downloader module is imported, nothing is cached.    *)
(***************************************************************************)
MemoryInit ==
    /\ libraryEnabled = FALSE
    /\ lastSel = NoCall
    /\ memoSel = NoCall
    /\ pc = "idle"
    /\ cur = NoConfig
    /\ destination = NoPath
    /\ provider = NoSelection
    /\ http = HttpIdle
    /\ dlResult = NoResult
    /\ invoked = 0
    /\ checked = "none"
    /\ warnings = {}
    /\ stages = {}
    /\ executed = FALSE
    /\ mpc = "none"
    /\ batch = << >>
    /\ idx = 0
    /\ results = << >>
    /\ okLog = << >>
    /\ storeMode = "ok"
    /\ localCaches = {}
    /\ lastOp = NoOp
    /\ cdCall = NoOp
    /\ cleanCall = NoClean
    /\ readerSeen = {}
    /\ inv = [i \in Invocations |-> InvIdle]
    /\ xfer = NoXfer
    /\ connection = "none"
    /\ databases = [d \in CacheDirs |-> NoDatabase]
    /\ handles = {}
    /\ handleOp = NoOp
    /\ resolver = ResolverIdle
    /\ gdrive = GDriveIdle

Init ==
    /\ providers = DownloaderRegistration
    /\ MemoryInit
    /\ store = {}
    /\ disk = [p \in Destinations |-> NoDir]
    /\ memoRun = NoRun
    /\ fetchOk = {}

(***************************************************************************)
(* DatasetDownloader(config).download(), step by step.                     *)
(***************************************************************************)
\* __init__ (_compute_destination) and entry of download().
Begin(config) ==
    LET d == DestinationOf(config) IN
    /\ cur' = config
    /\ provider' = NoSelection
    /\ http' = HttpIdle
    /\ invoked' = 0
    /\ checked' = "none"
    /\ warnings' = {}
    /\ stages' = {}
    /\ IF ~d.ok
       THEN /\ pc' = "raised"
            /\ destination' = NoPath
            /\ dlResult' = Raised(d.error)
       ELSE IF storeMode \in {"no_dir", "no_db"}
       THEN /\ pc' = "raised"
            /\ destination' = NoPath
            /\ dlResult' = Raised("CacheStoreError")
       ELSE /\ pc' = "check"
            /\ destination' = d.path
            /\ dlResult' = NoResult

StartDownload(config) ==
    /\ pc = "idle"
    /\ mpc = "none"
    /\ Begin(config)
    /\ UNCHANGED << regVars, diskVars, histVars, mgrVars, concVars, envVars >>

\* download(): the cache check.
CheckCache_ResavesOnHit ==
    /\ pc = "check"
    /\ checked' = IF RowsOf(store, Key) = {} THEN "miss"
                  ELSE IF \E r \in RowsOf(store, Key) : PathExists(r.destination_path)
                       THEN "present" ELSE "stale"
    /\ LET r == IF storeMode = "ok" THEN IsCached(store, cur, destination)
                ELSE [hit |-> FALSE, store |-> store] IN
       /\ store' = IF r.hit THEN SaveCacheRows(r.store, cur, destination, disk)
                   ELSE r.store
       /\ IF r.hit
          THEN /\ pc' = "returned"
               /\ dlResult' = Returned(destination, "cache", FALSE)
          ELSE /\ pc' = "prepare"
               /\ dlResult' = dlResult
    /\ UNCHANGED << regVars, disk, cur, destination, provider, http, invoked,
                    warnings, stages, histVars, mgrVars, concVars, envVars >>

CheckCache_IgnoresHit ==
    /\ pc = "check"
    /\ checked' = IF RowsOf(store, Key) = {} THEN "miss"
                  ELSE IF \E r \in RowsOf(store, Key) : PathExists(r.destination_path)
                       THEN "present" ELSE "stale"
    /\ LET r == IF storeMode = "ok" THEN IsCached(store, cur, destination)
                ELSE [hit |-> FALSE, store |-> store] IN
       /\ store' = r.store
       /\ pc' = "prepare"
       /\ dlResult' = dlResult
    /\ UNCHANGED << regVars, disk, cur, destination, provider, http, invoked,
                    warnings, stages, histVars, mgrVars, concVars, envVars >>

CheckCache ==
    /\ pc = "check"
    /\ checked' = IF RowsOf(store, Key) = {} THEN "miss"
                  ELSE IF \E r \in RowsOf(store, Key) : PathExists(r.destination_path)
                       THEN "present" ELSE "stale"
    /\ LET r == IF storeMode = "ok" THEN IsCached(store, cur, destination)
                ELSE [hit |-> FALSE, store |-> store] IN
       /\ store' = r.store
       /\ IF r.hit
          THEN /\ pc' = "returned"
               /\ dlResult' = Returned(destination, "cache", FALSE)
          ELSE /\ pc' = "prepare"
               /\ dlResult' = dlResult
    /\ UNCHANGED << regVars, disk, cur, destination, provider, http, invoked,
                    warnings, stages, histVars, mgrVars, concVars, envVars >>

\* download(): source = config.get("src", ""); "if not source".
SrcMissing_OnlyAbsent(config) == "src" \notin DOMAIN config

SrcMissing(config) == Get(config, "src", EmptySource) = EmptySource

\* download(): destination.mkdir, the src check, registry.get_provider and
\* the call of provider.download().
Prepare ==
    /\ pc = "prepare"
    /\ disk' = Mkdir(disk, destination)
    /\ IF SrcMissing(cur)
       THEN /\ pc' = "raised"
            /\ dlResult' = Raised("MissingSrc")
            /\ UNCHANGED << provider, invoked, fetchOk >>
       ELSE LET sel == GetProvider(Src, cur, destination) IN
            IF sel.kind = "error"
            THEN /\ pc' = "raised"
                 /\ dlResult' = [kind |-> "error", error |-> "NoProviderMatched",
                                 available |-> sel.available]
                 /\ UNCHANGED << provider, invoked, fetchOk >>
            ELSE /\ provider' = sel
                 /\ invoked' = invoked + 1
                 /\ fetchOk' = fetchOk \ {Key}
                 /\ pc' = IF sel.cls = "HTTPProvider" THEN "http_request"
                          ELSE "external"
                 /\ dlResult' = dlResult
    /\ UNCHANGED << regVars, store, cur, destination, http, checked, warnings, stages, memoRun,
                    executed, mgrVars, concVars, envVars >>

\* HTTPProvider.download: what follows a transient failure of an attempt.
AfterTransient_OneMoreAttempt(h) ==
    IF h.retry < max_retries
    THEN [retry |-> h.retry + 1, requests |-> h.requests,
          delays |-> Append(h.delays, retry_delay * (2 ^ h.retry)),
          bytes |-> "none", again |-> TRUE]
    ELSE [retry |-> h.retry, requests |-> h.requests, delays |-> h.delays,
          bytes |-> "none", again |-> FALSE]

AfterTransient(h) ==
    IF h.retry < max_retries - 1
    THEN [retry |-> h.retry + 1, requests |-> h.requests,
          delays |-> Append(h.delays, retry_delay * (2 ^ h.retry)),
          bytes |-> "none", again |-> TRUE]
    ELSE [retry |-> h.retry, requests |-> h.requests, delays |-> h.delays,
          bytes |-> "none", again |-> FALSE]

HttpOf(a) ==
    [retry |-> a.retry, requests |-> a.requests, delays |-> a.delays,
     bytes |-> a.bytes, space |-> "ok", refused |-> "no", commands |-> 0]

\* HTTPProvider.download: requests.get of one attempt, the disk space check
\* (made only when the response reports a content length) and the opening
\* of the temporary file.  "short_unsized": a 200 response without content
\* length whose body the free space cannot hold.
HttpRequest_ChecksAfterOpen(outcome) ==
    /\ pc = "http_request"
    /\ LET h == [http EXCEPT !.requests = @ + 1] IN
       CASE outcome \in {"ok200", "short_unsized"} ->
              /\ http' = [h EXCEPT !.bytes = "partial",
                                    !.space = IF outcome = "ok200" THEN "ok"
                                              ELSE "short_unsized"]
              /\ disk' = [disk EXCEPT ![Dest].tmp = @ \cup {Src}]
              /\ pc' = "http_body"
              /\ dlResult' = dlResult
         [] outcome = "no_space" ->
              /\ http' = [h EXCEPT !.space = "short_sized"]
              /\ disk' = [disk EXCEPT ![Dest].tmp = @ \cup {Src}]
              /\ pc' = "raised"
              /\ dlResult' = Raised("InsufficientDiskSpace")
         [] outcome \in {"not_found", "forbidden"} ->
              /\ http' = [h EXCEPT !.refused = outcome]
              /\ disk' = disk
              /\ pc' = "raised"
              /\ dlResult' = Raised("FetchFailed")
         [] outcome = "transient" ->
              LET a == AfterTransient(h) IN
              /\ http' = HttpOf(a)
              /\ disk' = disk
              /\ pc' = IF a.again THEN "http_request" ELSE "raised"
              /\ dlResult' = IF a.again THEN dlResult ELSE Raised("FetchFailed")
    /\ UNCHANGED << regVars, store, cur, destination, provider, invoked,
                    checked, warnings, stages, histVars, mgrVars, concVars, envVars >>

HttpRequest_RetriesNotFound(outcome) ==
    /\ pc = "http_request"
    /\ LET h == [http EXCEPT !.requests = @ + 1] IN
       CASE outcome \in {"ok200", "short_unsized"} ->
              /\ http' = [h EXCEPT !.bytes = "partial",
                                    !.space = IF outcome = "ok200" THEN "ok"
                                              ELSE "short_unsized"]
              /\ disk' = [disk EXCEPT ![Dest].tmp = @ \cup {Src}]
              /\ pc' = "http_body"
              /\ dlResult' = dlResult
         [] outcome = "no_space" ->
              /\ http' = [h EXCEPT !.space = "short_sized"]
              /\ disk' = disk
              /\ pc' = "raised"
              /\ dlResult' = Raised("InsufficientDiskSpace")
         [] outcome \in {"not_found", "forbidden"} ->
              LET a == AfterTransient(h) IN
              /\ http' = [HttpOf(a) EXCEPT !.refused = outcome]
              /\ disk' = disk
              /\ pc' = IF a.again THEN "http_request" ELSE "raised"
              /\ dlResult' = IF a.again THEN dlResult ELSE Raised("FetchFailed")
         [] outcome = "transient" ->
              LET a == AfterTransient(h) IN
              /\ http' = HttpOf(a)
              /\ disk' = disk
              /\ pc' = IF a.again THEN "http_request" ELSE "raised"
              /\ dlResult' = IF a.again THEN dlResult ELSE Raised("FetchFailed")
    /\ UNCHANGED << regVars, store, cur, destination, provider, invoked,
                    checked, warnings, stages, histVars, mgrVars, concVars, envVars >>

HttpRequest(outcome) ==
    /\ pc = "http_request"
    /\ LET h == [http EXCEPT !.requests = @ + 1] IN
       CASE outcome \in {"ok200", "short_unsized"} ->
              /\ http' = [h EXCEPT !.bytes = "partial",
                                    !.space = IF outcome = "ok200" THEN "ok"
                                              ELSE "short_unsized"]
              /\ disk' = [disk EXCEPT ![Dest].tmp = @ \cup {Src}]
              /\ pc' = "http_body"
              /\ dlResult' = dlResult
         [] outcome = "no_space" ->
              /\ http' = [h EXCEPT !.space = "short_sized"]
              /\ disk' = disk
              /\ pc' = "raised"
              /\ dlResult' = Raised("InsufficientDiskSpace")
         [] outcome \in {"not_found", "forbidden"} ->
              /\ http' = [h EXCEPT !.refused = outcome]
              /\ disk' = disk
              /\ pc' = "raised"
              /\ dlResult' = Raised("FetchFailed")
         [] outcome = "transient" ->
              LET a == AfterTransient(h) IN
              /\ http' = HttpOf(a)
              /\ disk' = disk
              /\ pc' = IF a.again THEN "http_request" ELSE "raised"
              /\ dlResult' = IF a.again THEN dlResult ELSE Raised("FetchFailed")
    /\ UNCHANGED << regVars, store, cur, destination, provider, invoked,
                    checked, warnings, stages, histVars, mgrVars, concVars, envVars >>

\* HTTPProvider.download: download_with_progress into the temporary file.
HttpBody(outcome) ==
    /\ pc = "http_body"
    /\ outcome = "bad" => "checksum" \in DOMAIN cur
    /\ outcome \in {"good", "bad"} => http.space = "ok"
    /\ CASE outcome \in {"good", "bad"} ->
              /\ http' = [http EXCEPT !.bytes = outcome]
              /\ disk' = disk
              /\ pc' = "http_verify"
              /\ dlResult' = dlResult
         [] outcome = "stream_error" ->
              LET a == AfterTransient(http) IN
              /\ http' = HttpOf(a)
              /\ disk' = [disk EXCEPT ![Dest].tmp = @ \ {Src}]
              /\ pc' = IF a.again THEN "http_request" ELSE "raised"
              /\ dlResult' = IF a.again THEN dlResult ELSE Raised("FetchFailed")
         [] outcome = "write_error" ->
              /\ http' = [http EXCEPT !.bytes = "none"]
              /\ disk' = [disk EXCEPT ![Dest].tmp = @ \ {Src}]
              /\ pc' = "raised"
              /\ dlResult' = Raised("WriteError")
    /\ UNCHANGED << regVars, store, cur, destination, provider, invoked,
                    checked, warnings, stages, histVars, mgrVars, concVars, envVars >>

\* compute_checksum of the bytes in the temporary file.
ChecksumOf(bytes) == IF bytes = "good" THEN "c" ELSE "z"

\* verify_checksum raises ValueError.
ChecksumMismatch(bytes, config) ==
    /\ "checksum" \in DOMAIN config
    /\ ChecksumOf(bytes) # config.checksum

\* HTTPProvider.download: checksum verification and the rename.
HttpVerify_RenamesBeforeVerify ==
    /\ pc = "http_verify"
    /\ disk' = [disk EXCEPT ![Dest].tmp = @ \ {Src},
                            ![Dest].final = @ \cup {Src}]
    /\ IF ChecksumMismatch(http.bytes, cur)
       THEN /\ pc' = "raised"
            /\ dlResult' = Raised("ChecksumMismatch")
            /\ fetchOk' = fetchOk
       ELSE /\ pc' = "decompress"
            /\ dlResult' = dlResult
            /\ fetchOk' = fetchOk \cup {Key}
    /\ UNCHANGED << regVars, store, cur, destination, provider, http, invoked,
                    checked, warnings, stages, memoRun, executed, mgrVars, concVars, envVars >>

HttpVerify_KeepsTmp ==
    /\ pc = "http_verify"
    /\ IF ChecksumMismatch(http.bytes, cur)
       THEN /\ disk' = disk
            /\ pc' = "raised"
            /\ dlResult' = Raised("ChecksumMismatch")
            /\ fetchOk' = fetchOk
       ELSE /\ disk' = [disk EXCEPT ![Dest].tmp = @ \ {Src},
                                    ![Dest].final = @ \cup {Src}]
            /\ pc' = "decompress"
            /\ dlResult' = dlResult
            /\ fetchOk' = fetchOk \cup {Key}
    /\ UNCHANGED << regVars, store, cur, destination, provider, http, invoked,
                    checked, warnings, stages, memoRun, executed, mgrVars, concVars, envVars >>

HttpVerify ==
    /\ pc = "http_verify"
    /\ IF ChecksumMismatch(http.bytes, cur)
       THEN /\ disk' = [disk EXCEPT ![Dest].tmp = @ \ {Src}]
            /\ pc' = "raised"
            /\ dlResult' = Raised("ChecksumMismatch")
            /\ fetchOk' = fetchOk
       ELSE /\ disk' = [disk EXCEPT ![Dest].tmp = @ \ {Src},
                                    ![Dest].final = @ \cup {Src}]
            /\ pc' = "decompress"
            /\ dlResult' = dlResult
            /\ fetchOk' = fetchOk \cup {Key}
    /\ UNCHANGED << regVars, store, cur, destination, provider, http, invoked,
                    checked, warnings, stages, memoRun, executed, mgrVars, concVars, envVars >>

\* The number of fetch commands a download() runs: OSFProvider runs one
\* "osf fetch" per entry of remote_filepath when the config lists files,
\* every other case is one command.
CommandsOf(cls, config) ==
    IF cls = "OSFProvider" /\ Len(Get(config, "remote_filepath", << >>)) > 0
    THEN Len(config.remote_filepath)
    ELSE 1

\* S3, Datalad, Google Drive, Zenodo, OSF (and Library when enabled):
\* download() checks that the tool is installed and runs the fetch command
\* (http.commands counts the runs).  A failed run may leave a half written
\* artifact beside what the directory already held.
ExternalFetch_RetriesOnce(outcome, leftover) ==
    /\ pc = "external"
    /\ outcome = "tool_missing" => http.commands = 0
    /\ IF provider.cls = "LibraryProvider" /\ ~libraryEnabled
       THEN /\ pc' = "raised"
            /\ dlResult' = Raised("LibraryDisabled")
            /\ UNCHANGED << disk, fetchOk, executed, http >>
       ELSE CASE outcome = "tool_missing" ->
                   /\ pc' = "raised"
                   /\ dlResult' = Raised("ToolMissing")
                   /\ UNCHANGED << disk, fetchOk, executed, http >>
              [] outcome = "rc0" ->
                   LET last == http.commands + 1 >= CommandsOf(provider.cls, cur) IN
                   /\ http' = [http EXCEPT !.commands = @ + 1]
                   /\ disk' = IF last
                              THEN [disk EXCEPT ![Dest].final = @ \cup {Src},
                                                ![Dest].partial = @ \ {Src}]
                              ELSE IF Src \notin disk[Dest].final
                              THEN [disk EXCEPT ![Dest].partial = @ \cup {Src}]
                              ELSE disk
                   /\ fetchOk' = IF last THEN fetchOk \cup {Key} ELSE fetchOk
                   /\ executed' = (executed \/ provider.cls = "LibraryProvider")
                   /\ pc' = IF last THEN "decompress" ELSE "external"
                   /\ dlResult' = dlResult
              [] outcome = "rc_nonzero" ->
                   /\ http' = [http EXCEPT !.commands = @ + 1]
                   /\ disk' = IF leftover /\ Src \notin disk[Dest].final
                              THEN [disk EXCEPT ![Dest].partial = @ \cup {Src}]
                              ELSE disk
                   /\ fetchOk' = fetchOk
                   /\ executed' = (executed \/ provider.cls = "LibraryProvider")
                   /\ pc' = IF http.commands = 0 THEN "external" ELSE "raised"
                   /\ dlResult' = IF http.commands = 0 THEN dlResult ELSE Raised("FetchFailed")
    /\ UNCHANGED << regVars, store, cur, destination, provider, invoked,
                    checked, warnings, stages, memoRun, mgrVars, concVars, envVars >>

ExternalFetch(outcome, leftover) ==
    /\ pc = "external"
    /\ outcome = "tool_missing" => http.commands = 0
    /\ IF provider.cls = "LibraryProvider" /\ ~libraryEnabled
       THEN /\ pc' = "raised"
            /\ dlResult' = Raised("LibraryDisabled")
            /\ UNCHANGED << disk, fetchOk, executed, http >>
       ELSE CASE outcome = "tool_missing" ->
                   /\ pc' = "raised"
                   /\ dlResult' = Raised("ToolMissing")
                   /\ UNCHANGED << disk, fetchOk, executed, http >>
              [] outcome = "rc0" ->
                   LET last == http.commands + 1 >= CommandsOf(provider.cls, cur) IN
                   /\ http' = [http EXCEPT !.commands = @ + 1]
                   /\ disk' = IF last
                              THEN [disk EXCEPT ![Dest].final = @ \cup {Src},
                                                ![Dest].partial = @ \ {Src}]
                              ELSE IF Src \notin disk[Dest].final
                              THEN [disk EXCEPT ![Dest].partial = @ \cup {Src}]
                              ELSE disk
                   /\ fetchOk' = IF last THEN fetchOk \cup {Key} ELSE fetchOk
                   /\ executed' = (executed \/ provider.cls = "LibraryProvider")
                   /\ pc' = IF last THEN "decompress" ELSE "external"
                   /\ dlResult' = dlResult
              [] outcome = "rc_nonzero" ->
                   /\ http' = [http EXCEPT !.commands = @ + 1]
                   /\ disk' = IF leftover /\ Src \notin disk[Dest].final
                              THEN [disk EXCEPT ![Dest].partial = @ \cup {Src}]
                              ELSE disk
                   /\ fetchOk' = fetchOk
                   /\ executed' = (executed \/ provider.cls = "LibraryProvider")
                   /\ pc' = "raised"
                   /\ dlResult' = Raised("FetchFailed")
    /\ UNCHANGED << regVars, store, cur, destination, provider, invoked,
                    checked, warnings, stages, memoRun, mgrVars, concVars, envVars >>

\* download(): decompressor.decompress_all(); an exception is only logged.
Decompress_Propagates(raises) ==
    /\ pc = "decompress"
    /\ pc' = IF raises THEN "raised" ELSE "save"
    /\ dlResult' = IF raises THEN Raised("ExtractFailed") ELSE dlResult
    /\ warnings' = warnings
    /\ stages' = stages \cup {"extract"}
    /\ UNCHANGED << regVars, diskVars, cur, destination, provider, http,
                    invoked, checked, histVars, mgrVars, concVars, envVars >>

Decompress(raises) ==
    /\ pc = "decompress"
    /\ pc' = "save"
    /\ warnings' = IF raises THEN warnings \cup {"extract"} ELSE warnings
    /\ stages' = stages \cup {"extract"}
    /\ UNCHANGED << regVars, diskVars, cur, destination, provider, http,
                    dlResult, invoked, checked, histVars, mgrVars, concVars, envVars >>

\* download(): cache_manager.save_cache(config); an exception is only logged.
SaveCache_BeforeFetch(ok) ==
    /\ pc \in {"save", "http_body"}
    /\ storeMode # "ok" => ~ok
    /\ warnings' = IF ok THEN warnings ELSE warnings \cup {"save"}
    /\ stages' = stages \cup {"save"}
    /\ store' = IF ok THEN SaveCacheRows(store, cur, destination, disk) ELSE store
    /\ pc' = IF pc = "save" THEN "returned" ELSE pc
    /\ dlResult' = IF pc = "save" THEN Returned(destination, "fetch", ok) ELSE dlResult
    /\ UNCHANGED << regVars, disk, cur, destination, provider, http, invoked,
                    checked, histVars, mgrVars, concVars, envVars >>

SaveCache(ok) ==
    /\ pc = "save"
    /\ storeMode # "ok" => ~ok
    /\ warnings' = IF ok THEN warnings ELSE warnings \cup {"save"}
    /\ stages' = stages \cup {"save"}
    /\ store' = IF ok THEN SaveCacheRows(store, cur, destination, disk) ELSE store
    /\ pc' = "returned"
    /\ dlResult' = Returned(destination, "fetch", ok)
    /\ UNCHANGED << regVars, disk, cur, destination, provider, http, invoked,
                    checked, histVars, mgrVars, concVars, envVars >>

\* The run a later call is compared with: a download() that fetched and saved.
RunOf(res, config, dest) ==
    [kind |-> "run", key |-> CacheKey(config), path |-> res.path,
     dest |-> Resolve(dest)]

\* download() is over and the caller has its result.
Finish(remember) ==
    /\ pc \in {"returned", "raised"}
    /\ mpc = "none"
    /\ pc' = "idle"
    /\ cur' = NoConfig
    /\ destination' = NoPath
    /\ provider' = NoSelection
    /\ http' = HttpIdle
    /\ dlResult' = NoResult
    /\ invoked' = 0
    /\ checked' = "none"
    /\ warnings' = {}
    /\ stages' = {}
    /\ memoRun' = IF /\ remember
                     /\ dlResult.kind = "path"
                     /\ dlResult.via = "fetch"
                     /\ dlResult.saved
                  THEN RunOf(dlResult, cur, destination)
                  ELSE memoRun
    /\ UNCHANGED << regVars, diskVars, fetchOk, executed, mgrVars, concVars, envVars >>

\* The process is interrupted or killed in the middle of download(): no
\* handler of the code runs, the disk and the store stay as they are.
Interrupt(leftover) ==
    /\ pc \notin {"idle"}
    /\ mpc = "none"
    /\ disk' = IF pc = "external" /\ leftover /\ Src \notin disk[Dest].final
                  /\ ~(provider.cls = "LibraryProvider" /\ ~libraryEnabled)
               THEN [disk EXCEPT ![Dest].partial = @ \cup {Src}]
               ELSE disk
    /\ providers' = DownloaderRegistration
    /\ libraryEnabled' = FALSE
    /\ lastSel' = NoCall
    /\ memoSel' = NoCall
    /\ pc' = "idle"
    /\ cur' = NoConfig
    /\ destination' = NoPath
    /\ provider' = NoSelection
    /\ http' = HttpIdle
    /\ dlResult' = NoResult
    /\ invoked' = 0
    /\ checked' = "none"
    /\ warnings' = {}
    /\ stages' = {}
    /\ executed' = FALSE
    /\ UNCHANGED << store, memoRun, fetchOk, mgrVars, concVars, envVars >>

\* Someone removes a destination directory between two download() calls.
DeleteExternally(p) ==
    /\ pc = "idle"
    /\ disk[p].exists
    /\ disk' = [disk EXCEPT ![p] = NoDir]
    /\ memoRun' = IF memoRun.kind = "run" /\ memoRun.dest = p THEN NoRun ELSE memoRun
    /\ localCaches' = { f \in localCaches : f.dir # p }
    /\ lastOp' = NoOp
    /\ UNCHANGED << regVars, store, dlVars, fetchOk, executed, mgrVars, concVars, storeMode,
                    cdCall >>

(***************************************************************************)
(* ProviderRegistry: register, clear, get_provider; LibraryProvider.ENABLED *)
(***************************************************************************)
Register(cls) ==
    /\ pc = "idle"
    /\ Len(providers) < MaxRegistered
    /\ providers' = Append(providers, cls)
    /\ lastSel' = NoCall
    /\ memoSel' = NoCall
    /\ UNCHANGED << libraryEnabled, diskVars, dlVars, histVars, mgrVars, concVars, envVars >>

ClearRegistry ==
    /\ pc = "idle"
    /\ providers # << >>
    /\ providers' = << >>
    /\ lastSel' = NoCall
    /\ memoSel' = NoCall
    /\ UNCHANGED << libraryEnabled, diskVars, dlVars, histVars, mgrVars, concVars, envVars >>

EnableLibrary ==
    /\ pc = "idle"
    /\ ~libraryEnabled
    /\ libraryEnabled' = TRUE
    /\ lastSel' = NoCall
    /\ memoSel' = NoCall
    /\ UNCHANGED << providers, diskVars, dlVars, histVars, mgrVars, concVars, envVars >>

\* A direct call registry.get_provider(source, config, destination).
GetProviderCall(source, config, dest) ==
    /\ pc = "idle"
    /\ lastSel' = [sel |-> GetProvider(source, config, dest), source |-> source,
                    config |-> config, dest |-> dest]
    /\ memoSel' = IF lastSel # NoCall /\ lastSel.source = source THEN lastSel
                  ELSE NoCall
    /\ UNCHANGED << providers, libraryEnabled, diskVars, dlVars, histVars, mgrVars, concVars, envVars >>

(***************************************************************************)
(* DatasetManager.install                                                  *)
(***************************************************************************)
ManagerConfigs ==
    { c \in Configs :
        \/ c = [src |-> HttpUrl, projectName |-> "p1"]
        \/ c = [src |-> HttpUrl, projectName |-> "p1", dst |-> <<"d1">>]
        \/ c = [src |-> S3Url, projectName |-> "p1", dst |-> <<"d1">>]
        \/ c = [src |-> PlainSource, projectName |-> "p1"]
        \/ c = [src |-> HttpUrl] }

Batches == UNION { [1..n -> ManagerConfigs] : n \in 1..MaxBatch }

\* install(): requirements parsed into the ordered downloads mapping.
Install(b) ==
    /\ pc = "idle"
    /\ mpc = "none"
    /\ mpc' = "loop"
    /\ batch' = b
    /\ idx' = 0
    /\ results' = << >>
    /\ okLog' = << >>
    /\ UNCHANGED << regVars, diskVars, dlVars, histVars, envVars, concVars >>

\* install(): the loop takes the next spec, builds its downloader and calls
\* download().
ManagerNext ==
    /\ mpc = "loop"
    /\ pc = "idle"
    /\ idx < Len(batch)
    /\ Begin(batch[idx + 1])
    /\ idx' = idx + 1
    /\ UNCHANGED << regVars, diskVars, histVars, envVars, concVars, mpc, batch, results, okLog >>

\* What install() has seen of one download(): the spec and its outcome.
Outcome(config, res) == [config |-> config, result |-> res]

\* install(): results.append(result_path), or the except clause.
ManagerCollect_BreakOnError ==
    /\ mpc = "loop"
    /\ pc \in {"returned", "raised"}
    /\ results' = IF pc = "returned" THEN Append(results, dlResult.path) ELSE results
    /\ mpc' = IF pc = "returned" THEN mpc ELSE "done"
    /\ okLog' = Append(okLog, Outcome(cur, dlResult))
    /\ pc' = "idle"
    /\ cur' = NoConfig
    /\ destination' = NoPath
    /\ provider' = NoSelection
    /\ http' = HttpIdle
    /\ dlResult' = NoResult
    /\ invoked' = 0
    /\ checked' = "none"
    /\ warnings' = {}
    /\ stages' = {}
    /\ UNCHANGED << regVars, diskVars, histVars, envVars, concVars, batch, idx >>

ManagerCollect_DropsEarlier ==
    /\ mpc = "loop"
    /\ pc \in {"returned", "raised"}
    /\ results' = IF pc = "returned" THEN Append(results, dlResult.path) ELSE << >>
    /\ mpc' = mpc
    /\ okLog' = Append(okLog, Outcome(cur, dlResult))
    /\ pc' = "idle"
    /\ cur' = NoConfig
    /\ destination' = NoPath
    /\ provider' = NoSelection
    /\ http' = HttpIdle
    /\ dlResult' = NoResult
    /\ invoked' = 0
    /\ checked' = "none"
    /\ warnings' = {}
    /\ stages' = {}
    /\ UNCHANGED << regVars, diskVars, histVars, envVars, concVars, batch, idx >>

ManagerCollect ==
    /\ mpc = "loop"
    /\ pc \in {"returned", "raised"}
    /\ results' = IF pc = "returned" THEN Append(results, dlResult.path) ELSE results
    /\ mpc' = mpc
    /\ okLog' = Append(okLog, Outcome(cur, dlResult))
    /\ pc' = "idle"
    /\ cur' = NoConfig
    /\ destination' = NoPath
    /\ provider' = NoSelection
    /\ http' = HttpIdle
    /\ dlResult' = NoResult
    /\ invoked' = 0
    /\ checked' = "none"
    /\ warnings' = {}
    /\ stages' = {}
    /\ UNCHANGED << regVars, diskVars, histVars, envVars, concVars, batch, idx >>

\* install(): the loop is over, results is returned.
ManagerDone ==
    /\ mpc = "loop"
    /\ pc = "idle"
    /\ idx = Len(batch)
    /\ mpc' = "done"
    /\ UNCHANGED << regVars, diskVars, dlVars, histVars, envVars, concVars, batch, idx, results, okLog >>

(***************************************************************************)
(* Specifications                                                          *)
(***************************************************************************)
DownloadSteps ==
    \/ CheckCache
    \/ Prepare
    \/ \E o \in {"ok200", "short_unsized", "no_space", "not_found", "forbidden",
                 "transient"} : HttpRequest(o)
    \/ \E o \in {"good", "bad", "stream_error", "write_error"} : HttpBody(o)
    \/ HttpVerify
    \/ \E o \in {"tool_missing", "rc0", "rc_nonzero"}, l \in BOOLEAN :
          ExternalFetch(o, l)
    \/ \E r \in BOOLEAN : Decompress(r)
    \/ \E ok \in BOOLEAN : SaveCache(ok)

\* Direct use of DatasetDownloader, one call after the other, without any
\* outside removal of data.
NextDownloads ==
    \/ \E c \in Configs : StartDownload(c)
    \/ DownloadSteps
    \/ \E m \in BOOLEAN : Finish(m)
    \/ \E l \in BOOLEAN : Interrupt(l)
    \/ ClearRegistry

SpecDownloads == Init /\ [][NextDownloads]_vars

\* The same, with destination directories removed from outside.
Next ==
    \/ \E c \in Configs : StartDownload(c)
    \/ DownloadSteps
    \/ Finish(FALSE)
    \/ \E l \in BOOLEAN : Interrupt(l)
    \/ ClearRegistry
    \/ \E p \in Destinations : DeleteExternally(p)

Spec == Init /\ [][Next]_vars

\* DatasetManager.install over batches.
NextManager ==
    \/ \E b \in Batches : Install(b)
    \/ ManagerNext
    \/ DownloadSteps
    \/ ManagerCollect
    \/ ManagerDone

SpecManager == Init /\ [][NextManager]_vars

\* The registry alone: registrations in any order, then selections.
RegistryConfigs ==
    { c \in Configs : c = [src |-> HttpUrl, projectName |-> "p1"]
                      \/ c = [src |-> ImportCmd, projectName |-> "p1", dst |-> <<"d1">>] }

\* A registry as constructed, before any registration.
InitRegistry ==
    /\ providers = << >>
    /\ MemoryInit
    /\ store = {}
    /\ disk = [p \in Destinations |-> NoDir]
    /\ memoRun = NoRun
    /\ fetchOk = {}

\* The seven register() calls made by the downloader module.
ImportDownloader ==
    /\ pc = "idle"
    /\ providers = << >>
    /\ providers' = DownloaderRegistration
    /\ lastSel' = NoCall
    /\ memoSel' = NoCall
    /\ UNCHANGED << libraryEnabled, diskVars, dlVars, histVars, mgrVars, concVars, envVars >>

NextRegistry ==
    \/ \E cls \in ProviderClasses : Register(cls)
    \/ ImportDownloader
    \/ ClearRegistry
    \/ EnableLibrary
    \/ \E s \in Sources, c \in RegistryConfigs :
          GetProviderCall(s, c, DestinationOf(c).path)

SpecRegistry == InitRegistry /\ [][NextRegistry]_vars

(***************************************************************************)
(* The cache store used directly: GlobalCacheManager and CacheMigrator.    *)
(***************************************************************************)
\* Specs that differ in fields outside CRITICAL_FIELDS, and one that differs
\* in version.
CacheConfigs ==
    { [src |-> HttpUrl, projectName |-> "p1"],
      [src |-> HttpUrl, projectName |-> "p1", dst |-> <<"d1">>, recursive |-> TRUE],
      [src |-> HttpUrl, projectName |-> "p1", version |-> "1"] }

\* The destination argument of the calls: a relative and an absolute path.
CacheDests == { <<"data", "p1">>, <<"/", "w", "d1", "p1">> }

\* Local cache files of the older layout, one with a config without src.
LocalCacheFiles ==
    { [dir |-> <<"/", "w", "data", "p1">>,
       config |-> [src |-> HttpUrl, projectName |-> "p1", dst |-> <<"d1">>]],
      [dir |-> <<"/", "w", "d1", "p1">>, config |-> [projectName |-> "p1"]] }

\* A data directory (with its local cache file or without) is put in place
\* from outside.
CreateExternally(p, legacy, files) ==
    /\ pc = "idle"
    /\ ~disk[p].exists
    /\ disk' = [disk EXCEPT ![p] = [EmptyDir EXCEPT !.final = files]]
    /\ localCaches' = IF legacy THEN localCaches \cup { f \in LocalCacheFiles : f.dir = p }
                      ELSE localCaches
    /\ lastOp' = NoOp
    /\ UNCHANGED << regVars, store, dlVars, histVars, mgrVars, concVars, storeMode, cdCall >>

\* GlobalCacheManager.is_cached(config, destination)
IsCachedCall(config, dest) ==
    /\ pc = "idle"
    /\ LET r == IsCached(store, config, dest) IN
       /\ store' = r.store
       /\ lastOp' = [op |-> "is_cached", config |-> config, result |-> r.hit]
    /\ UNCHANGED << regVars, disk, dlVars, histVars, mgrVars, concVars, storeMode,
                    localCaches, cdCall >>

\* GlobalCacheManager.save_cache(config, destination)
SaveCacheCall(config, dest) ==
    /\ pc = "idle"
    /\ store' = SaveCacheRows(store, config, dest, disk)
    /\ lastOp' = [op |-> "save_cache", config |-> config, dest |-> dest,
                  replaced |-> RowsOf(store, CacheKey(config)) # {},
                  again |-> /\ lastOp.op = "save_cache"
                            /\ lastOp.config = config
                            /\ lastOp.dest = dest]
    /\ UNCHANGED << regVars, disk, dlVars, histVars, mgrVars, concVars, storeMode,
                    localCaches, cdCall >>

\* GlobalCacheManager.invalidate_cache(config)
InvalidateCacheCall_ByProject(config) ==
    /\ pc = "idle"
    /\ store' = { r \in store : Get(r.config, "projectName", "") # Get(config, "projectName", "") }
    /\ lastOp' = [op |-> "invalidate_cache", config |-> config,
                  result |-> RowsOf(store, CacheKey(config)) # {}]
    /\ UNCHANGED << regVars, disk, dlVars, histVars, mgrVars, concVars, storeMode,
                    localCaches, cdCall >>

InvalidateCacheCall(config) ==
    /\ pc = "idle"
    /\ store' = RemoveEntry(store, CacheKey(config))
    /\ lastOp' = [op |-> "invalidate_cache", config |-> config,
                  result |-> RowsOf(store, CacheKey(config)) # {}]
    /\ UNCHANGED << regVars, disk, dlVars, histVars, mgrVars, concVars, storeMode,
                    localCaches, cdCall >>

\* clean_orphaned_entries: _remove_entry(cache_key) for every fetched row
\* whose destination_path does not exist.
CleanOrphaned_InvertedTest(st) ==
    LET orphans == { r \in st : PathExists(r.destination_path) } IN
    [removed |-> Cardinality(orphans),
     store |-> { r \in st : r.cache_key \notin { o.cache_key : o \in orphans } }]

CleanOrphaned(st) ==
    LET orphans == { r \in st : ~PathExists(r.destination_path) } IN
    [removed |-> Cardinality(orphans),
     store |-> { r \in st : r.cache_key \notin { o.cache_key : o \in orphans } }]

CleanOrphanedEntriesCall ==
    /\ pc = "idle"
    /\ LET r == CleanOrphaned(store) IN
       /\ store' = r.store
       /\ lastOp' = [op |-> "clean_orphaned_entries", result |-> r.removed]
    /\ UNCHANGED << regVars, disk, dlVars, histVars, mgrVars, concVars, storeMode,
                    localCaches, cdCall >>

\* clear_all: DELETE FROM cache_entries
ClearAllCall_DeletesData ==
    /\ pc = "idle"
    /\ store' = {}
    /\ disk' = [p \in DOMAIN disk |->
                  IF \E r \in store : r.destination_path = p THEN NoDir ELSE disk[p]]
    /\ lastOp' = [op |-> "clear_all", result |-> Cardinality(store)]
    /\ UNCHANGED << regVars, dlVars, histVars, mgrVars, concVars, storeMode,
                    localCaches, cdCall >>

ClearAllCall ==
    /\ pc = "idle"
    /\ store' = {}
    /\ lastOp' = [op |-> "clear_all", result |-> Cardinality(store)]
    /\ UNCHANGED << regVars, disk, dlVars, histVars, mgrVars, concVars, storeMode,
                    localCaches, cdCall >>

\* Legacy files that are not cache records: text that is not JSON, and
\* JSON whose top level is not an object; and a record without config.
MalformedCacheFiles ==
    { [dir |-> <<"/", "w", "data", "p1">>, malformed |-> "invalid_json"],
      [dir |-> <<"/", "w", "d1", "p1">>, malformed |-> "not_object"],
      [dir |-> <<"/", "w", "d1", "p1">>, config |-> << >>] }

\* As MigrateOne, but with the unlink in a finally clause.
MigrateOne_UnlinksInFinally(st, files, d, f, remove_after) ==
    IF f \notin files
    THEN [outcome |-> "false", store |-> st, files |-> files]
    ELSE IF "malformed" \in DOMAIN f
    THEN [outcome |-> IF f.malformed = "invalid_json" THEN "false" ELSE "raise",
          store |-> st, files |-> IF remove_after THEN files \ {f} ELSE files]
    ELSE IF f.config = << >> \/ "src" \notin DOMAIN f.config
    THEN [outcome |-> "false", store |-> st,
          files |-> IF remove_after THEN files \ {f} ELSE files]
    ELSE LET r == IsCached(st, f.config, f.dir) IN
         [outcome |-> "true",
          store |-> IF r.hit THEN r.store
                    ELSE SaveCacheRows(r.store, f.config, f.dir, d),
          files |-> IF remove_after THEN files \ {f} ELSE files]

\* migrate_local_cache on one file: "true" and "false" are its return
\* values, "raise" an exception its except clause (JSONDecodeError,
\* KeyError, IOError) does not catch.  A file that is gone makes open()
\* raise FileNotFoundError; a top level that is not an object makes
\* cache_data.get raise AttributeError.
MigrateOne(st, files, d, f, remove_after) ==
    IF f \notin files
    THEN [outcome |-> "false", store |-> st, files |-> files]
    ELSE IF "malformed" \in DOMAIN f
    THEN [outcome |-> IF f.malformed = "invalid_json" THEN "false" ELSE "raise",
          store |-> st, files |-> files]
    ELSE IF f.config = << >> \/ "src" \notin DOMAIN f.config
    THEN [outcome |-> "false", store |-> st, files |-> files]
    ELSE LET r == IsCached(st, f.config, f.dir) IN
         [outcome |-> "true",
          store |-> IF r.hit THEN r.store
                    ELSE SaveCacheRows(r.store, f.config, f.dir, d),
          files |-> IF remove_after THEN files \ {f} ELSE files]

\* CacheMigrator.migrate_local_cache(cache_file, remove_after)
MigrateLocalCache(f, remove_after) ==
    /\ pc = "idle"
    /\ f \in localCaches
    /\ LET r == MigrateOne(store, localCaches, disk, f, remove_after) IN
       /\ store' = r.store
       /\ localCaches' = r.files
       /\ lastOp' = [op |-> "migrate_local_cache", file |-> f,
                     remove_after |-> remove_after, result |-> r.outcome = "true"]
    /\ UNCHANGED << regVars, disk, dlVars, histVars, mgrVars, concVars, storeMode, cdCall >>

NextCache ==
    \/ \E c \in CacheConfigs, d \in CacheDests : IsCachedCall(c, d)
    \/ \E c \in CacheConfigs, d \in CacheDests : SaveCacheCall(c, d)
    \/ \E c \in CacheConfigs : InvalidateCacheCall(c)
    \/ CleanOrphanedEntriesCall
    \/ ClearAllCall
    \/ \E f \in LocalCacheFiles, r \in BOOLEAN : MigrateLocalCache(f, r)
    \/ \E p \in Destinations, l \in BOOLEAN, files \in {{}, {HttpUrl}} :
          CreateExternally(p, l, files)
    \/ \E p \in Destinations : DeleteExternally(p)

SpecCache == Init /\ [][NextCache]_vars

\* Downloads of one project whose specs differ in src or in version.
VersionConfigs ==
    { [src |-> HttpUrl, projectName |-> "p1"],
      [src |-> HttpUrl, projectName |-> "p1", version |-> "1"],
      [src |-> HttpUrl, projectName |-> "p1", version |-> "2"],
      [src |-> S3Url, projectName |-> "p1", version |-> "1"] }

NextVersions ==
    \/ \E c \in VersionConfigs : StartDownload(c)
    \/ DownloadSteps
    \/ Finish(FALSE)

SpecVersions == Init /\ [][NextVersions]_vars

\* What can be wrong with the cache store: the cache directory cannot be
\* created (mkdir raises in GlobalCacheManager.__init__), the database
\* cannot be opened (sqlite3.connect or the schema statements raise in
\* _init_database), or it opens and every later query raises sqlite3.Error.
StoreFaults == {"no_dir", "no_db", "query_fails"}

\* The environment makes the cache store unusable between two downloads.
BreakStore(mode) ==
    /\ pc = "idle"
    /\ mpc = "none"
    /\ storeMode = "ok"
    /\ storeMode' = mode
    /\ UNCHANGED << regVars, diskVars, dlVars, histVars, mgrVars, concVars, localCaches,
                    lastOp, cdCall >>

\* The environment makes the cache store usable again.
RepairStore ==
    /\ pc = "idle"
    /\ mpc = "none"
    /\ storeMode # "ok"
    /\ storeMode' = "ok"
    /\ UNCHANGED << regVars, diskVars, dlVars, histVars, mgrVars, concVars, localCaches,
                    lastOp, cdCall >>

\* Downloads while the cache store breaks and recovers.
StoreFaultConfigs ==
    { [src |-> HttpUrl, projectName |-> "p1"],
      [src |-> S3Url, projectName |-> "p1", version |-> "1"] }

NextStoreFaults ==
    \/ \E c \in StoreFaultConfigs : StartDownload(c)
    \/ DownloadSteps
    \/ Finish(FALSE)
    \/ \E m \in StoreFaults : BreakStore(m)
    \/ RepairStore

SpecStoreFaults == Init /\ [][NextStoreFaults]_vars

\* The inputs of _compute_destination: dataLayout absent, "neurolibre" or
\* another layout; dst absent, relative or absolute; the requirement path
\* not given, absolute, relative, or in a subdirectory; the requirement
\* file present or not; server mode with its forced directory.
LayoutOptions ==
    { [fields |-> {}, value |-> ""],
      [fields |-> {"dataLayout"}, value |-> "neurolibre"],
      [fields |-> {"dataLayout"}, value |-> "flat"] }

DstOptions ==
    { [fields |-> {}, value |-> NoPath],
      [fields |-> {"dst"}, value |-> <<"d1">>],
      [fields |-> {"dst"}, value |-> <<"/", "abs">>] }

DestinationConfigs ==
    { [f \in {"src", "projectName"} \cup l.fields \cup d.fields |->
          CASE f = "src" -> HttpUrl
            [] f = "projectName" -> "p1"
            [] f = "dataLayout" -> l.value
            [] f = "dst" -> d.value] : l \in LayoutOptions, d \in DstOptions }

RequirementPaths ==
    { NoPath, RequirementPath, <<"data_requirement.json">>,
      <<"sub", "data_requirement.json">> }

ServerDestinations == { <<"/", "srv">>, <<"srv_data">> }

\* DatasetDownloader(config, server_mode, server_destination,
\* requirement_path): the destination its constructor computes.
ComputeDestinationCall(config, server_mode, server_destination, requirement_path, requirement_exists) ==
    /\ pc = "idle"
    /\ requirement_exists => requirement_path # NoPath
    /\ cdCall' = [op |-> "compute_destination", config |-> config,
                  server_mode |-> server_mode,
                  server_destination |-> server_destination,
                  requirement_path |-> requirement_path,
                  requirement_exists |-> requirement_exists,
                  result |-> ComputeDestination(config, server_mode,
                                 server_destination, requirement_path,
                                 requirement_exists)]
    /\ UNCHANGED << regVars, diskVars, dlVars, histVars, mgrVars, concVars, storeMode,
                    localCaches, lastOp >>

NextDestination ==
    \E c \in DestinationConfigs, sm \in BOOLEAN, sd \in ServerDestinations,
       rp \in RequirementPaths, re \in BOOLEAN :
          ComputeDestinationCall(c, sm, sd, rp, re)

SpecDestination == Init /\ [][NextDestination]_vars

\* DatasetDownloader(config).invalidate_cache(): it calls
\* CacheManager.invalidate_cache() without a config, so the branch of the
\* global store ("... and config") is not taken and only the local cache
\* file of the destination is unlinked when there is one.
DownloaderInvalidateCache(config) ==
    /\ pc = "idle"
    /\ mpc = "none"
    /\ DestinationOf(config).ok
    /\ LET dest == DestinationOf(config).path IN
       /\ localCaches' = { f \in localCaches : f.dir # Resolve(dest) }
       /\ lastOp' = [op |-> "downloader_invalidate", config |-> config,
                     was_cached |-> IsCached(store, config, dest).hit]
    /\ UNCHANGED << regVars, diskVars, dlVars, histVars, mgrVars, concVars, storeMode, cdCall >>

\* Downloads and invalidations through the downloader.
InvalidateConfigs ==
    { [src |-> HttpUrl, projectName |-> "p1"],
      [src |-> S3Url, projectName |-> "p1", dst |-> <<"d1">>] }

NextInvalidate ==
    \/ \E c \in InvalidateConfigs : StartDownload(c)
    \/ DownloadSteps
    \/ Finish(FALSE)
    \/ \E c \in InvalidateConfigs : DownloaderInvalidateCache(c)

SpecInvalidate == Init /\ [][NextInvalidate]_vars

\* migrate_all: the loop over the files find_local_caches returned, from
\* file i on; acc holds the store, the files on disk and the two counters.
RECURSIVE MigrateAllFrom(_, _, _, _, _)
MigrateAllFrom(order, i, acc, d, remove_after) ==
    IF i > Len(order) THEN acc
    ELSE LET r == MigrateOne(acc.store, acc.files, d, order[i], remove_after) IN
         IF r.outcome = "raise"
         THEN [acc EXCEPT !.raised = TRUE]
         ELSE MigrateAllFrom(order, i + 1,
                  [raised |-> FALSE, store |-> r.store, files |-> r.files,
                   migrated |-> acc.migrated + (IF r.outcome = "true" THEN 1 ELSE 0),
                   failed |-> acc.failed + (IF r.outcome = "false" THEN 1 ELSE 0)],
                  d, remove_after)

\* The orders in which rglob can list a set of files.
Orders(files) ==
    { o \in [1..Cardinality(files) -> files] :
        \A i, j \in 1..Cardinality(files) : o[i] = o[j] => i = j }

\* CacheMigrator.migrate_all([cwd], remove_after)
MigrateAllCall(order, remove_after) ==
    /\ pc = "idle"
    /\ order \in Orders(localCaches)
    /\ LET r == MigrateAllFrom(order, 1,
                    [raised |-> FALSE, store |-> store, files |-> localCaches,
                     migrated |-> 0, failed |-> 0], disk, remove_after) IN
       /\ store' = r.store
       /\ localCaches' = r.files
       /\ lastOp' = [op |-> "migrate_all", found |-> localCaches,
                     raised |-> r.raised, migrated |-> r.migrated,
                     failed |-> r.failed]
    /\ UNCHANGED << regVars, disk, dlVars, histVars, mgrVars, concVars, storeMode, cdCall >>

\* A legacy file is written into a data directory from outside.
WriteLocalCache(f) ==
    /\ pc = "idle"
    /\ disk[f.dir].exists
    /\ f \notin localCaches
    /\ localCaches' = localCaches \cup {f}
    /\ lastOp' = NoOp
    /\ UNCHANGED << regVars, diskVars, dlVars, histVars, mgrVars, concVars, storeMode, cdCall >>

\* Migrations of whatever legacy files the data directories hold.
NextMigration ==
    \/ \E p \in Destinations, files \in {{}, {HttpUrl}} : CreateExternally(p, FALSE, files)
    \/ \E p \in Destinations : DeleteExternally(p)
    \/ \E f \in LocalCacheFiles \cup MalformedCacheFiles : WriteLocalCache(f)
    \/ \E o \in UNION { Orders(F) : F \in SUBSET (LocalCacheFiles \cup MalformedCacheFiles) },
          r \in BOOLEAN : MigrateAllCall(o, r)
    \/ ClearAllCall

SpecMigration == Init /\ [][NextMigration]_vars

\* Downloads through the providers that delegate to an external tool.
ExternalConfigs ==
    { [src |-> S3Url, projectName |-> "p1"],
      [src |-> GitUrl, projectName |-> "p1"],
      [src |-> ZenodoDoi, projectName |-> "p1"],
      [src |-> GDriveUrl, projectName |-> "p1"],
      [src |-> OsfUrl, projectName |-> "p1"],
      [src |-> OsfUrl, projectName |-> "p1", version |-> "1",
       remote_filepath |-> <<"a", "b">>] }

\* A download through an external tool, started while the store is small.
StartExternal(config) ==
    /\ Cardinality(store) < MaxCachedExternal
    /\ StartDownload(config)

NextExternal ==
    \/ \E c \in ExternalConfigs : StartExternal(c)
    \/ CheckCache
    \/ Prepare
    \/ \E o \in {"tool_missing", "rc0", "rc_nonzero"}, l \in BOOLEAN :
          ExternalFetch(o, l)
    \/ \E r \in BOOLEAN : Decompress(r)
    \/ \E ok \in BOOLEAN : SaveCache(ok)
    \/ Finish(FALSE)

SpecExternal == Init /\ [][NextExternal]_vars

(***************************************************************************)
(* Store operations commit by commit, with a second handle reading.        *)
(***************************************************************************)
\* Rows held when a stepwise clean_orphaned_entries is followed.
TransactionSaves ==
    { [config |-> [src |-> HttpUrl, projectName |-> "p1"],
       dest |-> <<"data", "p1">>],
      [config |-> [src |-> HttpUrl, projectName |-> "p1", version |-> "1"],
       dest |-> <<"/", "w", "d1", "p1">>] }

\* clean_orphaned_entries: SELECT cache_key, destination_path; fetchall()
CleanBegin ==
    /\ pc = "idle"
    /\ cleanCall.pc \in {"idle", "done"}
    /\ cleanCall' = [NoClean EXCEPT !.pc = "scan", !.entries = store]
    /\ readerSeen' = {}
    /\ UNCHANGED << regVars, diskVars, dlVars, histVars, mgrVars, envVars, inv, xfer, handleVars,
                    resolver, gdrive >>

\* the loop test of one fetched entry: Path(destination_path).exists()
CleanCheck ==
    /\ cleanCall.pc = "scan"
    /\ \E e \in cleanCall.entries :
          cleanCall' = IF PathExists(e.destination_path)
                       THEN [cleanCall EXCEPT !.entries = @ \ {e}]
                       ELSE [cleanCall EXCEPT !.pc = "remove", !.doomed = {e}]
    /\ UNCHANGED << regVars, diskVars, dlVars, histVars, mgrVars, envVars, readerSeen,
                    inv, xfer, handleVars,
                    resolver, gdrive >>

\* _remove_entry(entry['cache_key']): DELETE by key and commit; removed += 1
CleanRemove ==
    /\ cleanCall.pc = "remove"
    /\ \E e \in cleanCall.doomed :
          /\ store' = RemoveEntry(store, e.cache_key)
          /\ cleanCall' = [cleanCall EXCEPT !.pc = "scan",
                                            !.entries = @ \ {e},
                                            !.doomed = {},
                                            !.removed = @ \cup RowsOf(store, e.cache_key),
                                            !.live = @ \cup { r \in RowsOf(store, e.cache_key) :
                                                                PathExists(r.destination_path) },
                                            !.count = @ + 1]
    /\ UNCHANGED << regVars, disk, dlVars, histVars, mgrVars, envVars, readerSeen,
                    inv, xfer, handleVars,
                    resolver, gdrive >>

\* the loop is over: return removed
CleanReturn ==
    /\ cleanCall.pc = "scan"
    /\ cleanCall.entries = {}
    /\ cleanCall' = [cleanCall EXCEPT !.pc = "done"]
    /\ lastOp' = [op |-> "clean_orphaned_entries", result |-> cleanCall.count]
    /\ UNCHANGED << regVars, diskVars, dlVars, histVars, mgrVars, storeMode,
                    localCaches, cdCall, readerSeen, inv, xfer, handleVars,
                    resolver, gdrive >>

\* list_all_cached on another handle while the call above is running
ListAllCached ==
    /\ cleanCall.pc \in {"scan", "remove"}
    /\ readerSeen = {}
    /\ readerSeen' = {store}
    /\ UNCHANGED << regVars, diskVars, dlVars, histVars, mgrVars, envVars, cleanCall,
                    inv, xfer, handleVars,
                    resolver, gdrive >>

NextTransactions ==
    \/ \E s \in TransactionSaves : SaveCacheCall(s.config, s.dest)
    \/ \E s \in TransactionSaves : CreateExternally(Resolve(s.dest), FALSE, {})
    \/ \E s \in TransactionSaves : DeleteExternally(Resolve(s.dest))
    \/ ClearAllCall
    \/ CleanBegin
    \/ CleanCheck
    \/ CleanRemove
    \/ CleanReturn
    \/ ListAllCached

SpecTransactions == Init /\ [][NextTransactions]_vars

(***************************************************************************)
(* Two download() calls on one HTTP spec at the same time, step by step:   *)
(* is_cached (SELECT, then UPDATE or DELETE), mkdir, the body written      *)
(* through a handle on "<name>.tmp", rename, save_cache.                   *)
(***************************************************************************)
RaceConfig == [src |-> HttpUrl, projectName |-> "p1"]
RaceDest == DestinationOf(RaceConfig).path
RaceDir == Resolve(RaceDest)
RaceKey == CacheKey(RaceConfig)
\* A spec of another key, cached at another destination.
OtherConfig == [src |-> HttpUrl, projectName |-> "p1", version |-> "1"]
OtherDest == <<"/", "w", "d1", "p1">>

\* Every chunk of the body is in the file.
Complete(n) == \A c \in 1..TransferChunks : xfer.data[n][c]
NodesInUse(x, calls) == {x.tmp, x.final} \cup { calls[j].node : j \in Invocations }

\* The destination directory as a recursive walk sees it.
WithEntries(dir, x) ==
    [dir EXCEPT !.tmp = IF x.tmp # 0 THEN {HttpUrl} ELSE {},
                !.final = IF x.final # 0 THEN {HttpUrl} ELSE {}]

\* DatasetDownloader(config).download() is entered.
InvStart(i) ==
    /\ pc = "idle"
    /\ inv[i].pc \in {"idle", "done"}
    /\ inv' = [inv EXCEPT ![i] = [InvIdle EXCEPT !.pc = "check"]]
    /\ UNCHANGED << regVars, diskVars, dlVars, histVars, mgrVars, envVars, cleanCall,
                    readerSeen, xfer, handleVars,
                    resolver, gdrive >>

\* is_cached: SELECT the row of the key; cached_path.exists()
InvIsCachedRead(i) ==
    /\ inv[i].pc = "check"
    /\ inv' = [inv EXCEPT ![i].pc =
                 IF RowsOf(store, RaceKey) = {} THEN "mkdir"
                 ELSE IF \E r \in RowsOf(store, RaceKey) : PathExists(r.destination_path)
                      THEN "bump" ELSE "purge"]
    /\ UNCHANGED << regVars, diskVars, dlVars, histVars, mgrVars, envVars, cleanCall,
                    readerSeen, xfer, handleVars,
                    resolver, gdrive >>

\* is_cached: UPDATE last_accessed WHERE cache_key; commit; return True
InvBump(i) ==
    /\ inv[i].pc = "bump"
    /\ store' = { IF r.cache_key = RaceKey THEN [r EXCEPT !.last_accessed = "later"] ELSE r :
                  r \in store }
    /\ inv' = [inv EXCEPT ![i].pc = "done", ![i].result = "cached"]
    /\ UNCHANGED << regVars, disk, dlVars, histVars, mgrVars, envVars, cleanCall,
                    readerSeen, xfer, handleVars,
                    resolver, gdrive >>

\* is_cached: _remove_entry(cache_key); return False
InvPurge(i) ==
    /\ inv[i].pc = "purge"
    /\ store' = RemoveEntry(store, RaceKey)
    /\ inv' = [inv EXCEPT ![i].pc = "mkdir",
                          ![i].purged = RowsOf(store, RaceKey),
                          ![i].live = { r \in RowsOf(store, RaceKey) :
                                          PathExists(r.destination_path) }]
    /\ UNCHANGED << regVars, disk, dlVars, histVars, mgrVars, envVars, cleanCall,
                    readerSeen, xfer, handleVars,
                    resolver, gdrive >>

\* destination.mkdir; get_provider; requests.get answers 200
InvMkdir(i) ==
    /\ inv[i].pc = "mkdir"
    /\ disk' = Mkdir(disk, RaceDest)
    /\ inv' = [inv EXCEPT ![i].pc = "open"]
    /\ UNCHANGED << regVars, store, dlVars, histVars, mgrVars, envVars, cleanCall,
                    readerSeen, xfer, handleVars,
                    resolver, gdrive >>

\* open(tmp_filepath, 'wb'): creates the file, or truncates the one there
InvOpen(i) ==
    /\ inv[i].pc = "open"
    /\ LET n == IF xfer.tmp # 0 THEN xfer.tmp
                ELSE CHOOSE m \in Nodes \ NodesInUse(xfer, inv) :
                        \A k \in Nodes \ NodesInUse(xfer, inv) : m <= k
       IN  /\ xfer' = [xfer EXCEPT !.tmp = n, !.data[n] = NoFile]
           /\ inv' = [inv EXCEPT ![i].pc = "write", ![i].node = n, ![i].offset = 0]
    /\ disk' = [disk EXCEPT ![RaceDir] = WithEntries(@, xfer')]
    /\ UNCHANGED << regVars, store, dlVars, histVars, mgrVars, envVars, cleanCall,
                    readerSeen, handleVars,
                    resolver, gdrive >>

\* download_with_progress: one chunk written through the handle
InvWrite(i) ==
    /\ inv[i].pc = "write"
    /\ inv[i].offset < TransferChunks
    /\ xfer' = [xfer EXCEPT !.data[inv[i].node][inv[i].offset + 1] = TRUE]
    /\ inv' = [inv EXCEPT ![i].offset = @ + 1,
                          ![i].pc = IF inv[i].offset + 1 = TransferChunks
                                    THEN "rename" ELSE "write",
                          ![i].node = IF inv[i].offset + 1 = TransferChunks THEN 0 ELSE @]
    /\ UNCHANGED << regVars, diskVars, dlVars, histVars, mgrVars, envVars, cleanCall,
                    readerSeen, handleVars,
                    resolver, gdrive >>

\* the body fails: except Exception: tmp_filepath.unlink(missing_ok=True); raise
InvAbort(i) ==
    /\ inv[i].pc = "write"
    /\ xfer' = [xfer EXCEPT !.tmp = 0]
    /\ inv' = [inv EXCEPT ![i].pc = "done", ![i].node = 0, ![i].result = "failed"]
    /\ disk' = [disk EXCEPT ![RaceDir] = WithEntries(@, xfer')]
    /\ UNCHANGED << regVars, store, dlVars, histVars, mgrVars, envVars, cleanCall,
                    readerSeen, handleVars,
                    resolver, gdrive >>

\* tmp_filepath.rename(filepath); FileNotFoundError when the entry is gone
InvRename(i) ==
    /\ inv[i].pc = "rename"
    /\ IF xfer.tmp = 0
       THEN /\ inv' = [inv EXCEPT ![i].pc = "done", ![i].result = "failed"]
            /\ UNCHANGED << xfer, disk, handleVars,
                    resolver, gdrive >>
       ELSE /\ xfer' = [xfer EXCEPT !.final = xfer.tmp, !.tmp = 0]
            /\ inv' = [inv EXCEPT ![i].pc = "save"]
            /\ disk' = [disk EXCEPT ![RaceDir] = WithEntries(@, xfer')]
    /\ UNCHANGED << regVars, store, dlVars, histVars, mgrVars, envVars, cleanCall,
                    readerSeen, handleVars,
                    resolver, gdrive >>

\* decompress_all finds no archive; cache_manager.save_cache(config)
InvSave(i) ==
    /\ inv[i].pc = "save"
    /\ store' = SaveCacheRows(store, RaceConfig, RaceDest, disk)
    /\ inv' = [inv EXCEPT ![i].pc = "done", ![i].result = "fetched",
                          ![i].wrote = { NewRow(RaceConfig, RaceDest, disk) }]
    /\ UNCHANGED << regVars, disk, dlVars, histVars, mgrVars, envVars, cleanCall,
                    readerSeen, xfer, handleVars,
                    resolver, gdrive >>

\* The data directory is deleted from outside while no fetch is running.
DataRemoved ==
    /\ \A i \in Invocations : inv[i].pc \in {"idle", "done"}
    /\ disk[RaceDir].exists
    /\ disk' = [disk EXCEPT ![RaceDir] = NoDir]
    /\ xfer' = NoXfer
    /\ UNCHANGED << regVars, store, dlVars, histVars, mgrVars, envVars, cleanCall,
                    readerSeen, inv, handleVars,
                    resolver, gdrive >>

InvSteps(i) ==
    \/ InvStart(i)
    \/ InvIsCachedRead(i)
    \/ InvBump(i)
    \/ InvPurge(i)
    \/ InvMkdir(i)
    \/ InvOpen(i)
    \/ InvWrite(i)
    \/ InvAbort(i)
    \/ InvRename(i)
    \/ InvSave(i)

NextRace ==
    \/ \E i \in Invocations : InvSteps(i)
    \/ DataRemoved
    \/ SaveCacheCall(OtherConfig, OtherDest)

SpecRace == Init /\ [][NextRace]_vars

\* One download() call with a clean_orphaned_entries call running beside it.
NextPurgeRace ==
    \/ InvSteps(1)
    \/ DataRemoved
    \/ CleanBegin
    \/ CleanCheck
    \/ CleanRemove
    \/ CleanReturn

SpecPurgeRace == Init /\ [][NextPurgeRace]_vars

(***************************************************************************)
(* GlobalCacheManager handles of one thread.  _thread_local is a class     *)
(* attribute: the handles of a thread share one connection slot.           *)
(***************************************************************************)
HandleKeys == {"k1", "k2"}

\* _get_connection: the connection in the slot, else sqlite3.connect(self.db_path),
\* which creates the file when it is missing.
GetConnection(h) == IF connection = "none" THEN CacheDirOf(h) ELSE connection

Connected(dbs, d) == [dbs EXCEPT ![d].file = TRUE]

\* GlobalCacheManager(cache_dir): _init_database creates the table through
\* _get_connection.
NewHandle(h) ==
    /\ pc = "idle"
    /\ h \notin handles
    /\ LET d == GetConnection(h) IN
       /\ connection' = d
       /\ databases' = [Connected(databases, d) EXCEPT ![d].table = TRUE]
       /\ handleOp' = [op |-> "init", handle |-> h, own |-> CacheDirOf(h), db |-> d,
                       failed |-> FALSE]
    /\ handles' = handles \cup {h}
    /\ UNCHANGED << regVars, diskVars, dlVars, histVars, mgrVars, envVars, cleanCall,
                    readerSeen, inv, xfer,
                    resolver, gdrive >>

\* save_cache on a handle: INSERT OR REPLACE; sqlite3.Error (no such table)
\* is logged and raised again.
HandleSaveCache(h, k) ==
    /\ h \in handles
    /\ LET d == GetConnection(h) IN
       /\ connection' = d
       /\ databases' = IF databases[d].table
                       THEN [Connected(databases, d) EXCEPT ![d].rows = @ \cup {k}]
                       ELSE Connected(databases, d)
       /\ handleOp' = [op |-> "save_cache", handle |-> h, own |-> CacheDirOf(h), db |-> d,
                       failed |-> ~databases[d].table]
    /\ UNCHANGED << regVars, diskVars, dlVars, histVars, mgrVars, envVars, cleanCall,
                    readerSeen, inv, xfer, handles,
                    resolver, gdrive >>

\* invalidate_cache on a handle: _remove_entry; sqlite3.Error is logged and
\* False returned.
HandleInvalidateCache(h, k) ==
    /\ h \in handles
    /\ LET d == GetConnection(h) IN
       /\ connection' = d
       /\ databases' = [Connected(databases, d) EXCEPT ![d].rows = @ \ {k}]
       /\ handleOp' = [op |-> "invalidate_cache", handle |-> h, own |-> CacheDirOf(h),
                       db |-> d, failed |-> ~databases[d].table]
    /\ UNCHANGED << regVars, diskVars, dlVars, histVars, mgrVars, envVars, cleanCall,
                    readerSeen, inv, xfer, handles,
                    resolver, gdrive >>

\* close(): closes the connection in the slot and deletes the slot.
HandleClose(h) ==
    /\ h \in handles
    /\ connection # "none"
    /\ connection' = "none"
    /\ handleOp' = NoOp
    /\ UNCHANGED << regVars, diskVars, dlVars, histVars, mgrVars, envVars, cleanCall,
                    readerSeen, inv, xfer, databases, handles,
                    resolver, gdrive >>

\* __del__ when a handle is garbage-collected: close().
HandleDel(h) ==
    /\ h \in handles
    /\ handles' = handles \ {h}
    /\ connection' = "none"
    /\ handleOp' = NoOp
    /\ UNCHANGED << regVars, diskVars, dlVars, histVars, mgrVars, envVars, cleanCall,
                    readerSeen, inv, xfer, databases,
                    resolver, gdrive >>

NextHandles ==
    \/ \E h \in Handles : NewHandle(h)
    \/ \E h \in Handles, k \in HandleKeys : HandleSaveCache(h, k)
    \/ \E h \in Handles, k \in HandleKeys : HandleInvalidateCache(h, k)
    \/ \E h \in Handles : HandleClose(h)
    \/ \E h \in Handles : HandleDel(h)

SpecHandles == Init /\ [][NextHandles]_vars

\* migrate_local_cache on single legacy files, well formed or not.
NextMigrateFile ==
    \/ \E f \in LocalCacheFiles : CreateExternally(f.dir, FALSE, {})
    \/ \E f \in LocalCacheFiles : DeleteExternally(f.dir)
    \/ \E f \in LocalCacheFiles \cup MalformedCacheFiles : WriteLocalCache(f)
    \/ \E f \in LocalCacheFiles \cup MalformedCacheFiles, r \in BOOLEAN :
          MigrateLocalCache(f, r)
    \/ ClearAllCall

SpecMigrateFile == Init /\ [][NextMigrateFile]_vars

(***************************************************************************)
(* FigshareProvider.download and DataverseProvider.download: the manifest  *)
(* of the metadata query, then one GET per manifest entry.                 *)
(***************************************************************************)
ResolverClasses == {"FigshareProvider", "DataverseProvider"}

\* Manifest entries: url is the entry's download_url (Figshare) or file id
\* (Dataverse); size is the size the metadata declares, 0 when it has none.
ManifestEntries ==
    { [name |-> "f1", url |-> TRUE, size |-> 1],
      [name |-> "f2", url |-> TRUE, size |-> 0],
      [name |-> "f3", url |-> FALSE, size |-> 1] }

Manifests ==
    { << >> } \cup { <<e>> : e \in ManifestEntries }
      \cup { m \in { <<e1, e2>> : e1 \in ManifestEntries, e2 \in ManifestEntries } :
                m[1] # m[2] }

\* download(): _ensure_destination_exists, the source is parsed, the
\* metadata query answers (or fails), "if not files: raise ValueError".
ResolverDownload(cls, answered, files) ==
    /\ pc = "idle"
    /\ resolver.pc \in {"idle", "returned", "raised"}
    /\ resolver' =
          IF ~answered
          THEN [resolver EXCEPT !.pc = "raised", !.cls = cls, !.files = << >>, !.i = 0,
                                !.checked = {}, !.error = "MetadataFailed"]
          ELSE IF files = << >>
          THEN [resolver EXCEPT !.pc = "raised", !.cls = cls, !.files = files, !.i = 0,
                                !.checked = {}, !.error = "NoFiles"]
          ELSE [resolver EXCEPT !.pc = "entry", !.cls = cls, !.files = files, !.i = 1,
                                !.checked = {}, !.error = "none"]
    /\ UNCHANGED << regVars, diskVars, dlVars, histVars, mgrVars, envVars, cleanCall,
                    readerSeen, inv, xfer, handleVars, gdrive >>

\* The head of the loop: an entry without url is skipped; check_disk_space
\* runs when the declared size is positive.
ResolverEntry(space) ==
    /\ resolver.pc = "entry"
    /\ resolver' =
          IF resolver.i > Len(resolver.files)
          THEN [resolver EXCEPT !.pc = "returned"]
          ELSE LET e == resolver.files[resolver.i] IN
               IF ~e.url THEN [resolver EXCEPT !.i = @ + 1]
               ELSE IF e.size > 0 /\ space = "short"
               THEN [resolver EXCEPT !.pc = "raised", !.error = "InsufficientDiskSpace"]
               ELSE [resolver EXCEPT !.pc = "get",
                                     !.checked = IF e.size > 0 THEN @ \cup {e.name} ELSE @]
    /\ UNCHANGED << regVars, diskVars, dlVars, histVars, mgrVars, envVars, cleanCall,
                    readerSeen, inv, xfer, handleVars, gdrive >>

\* requests.get; raise_for_status; open(file_path, 'wb') on the final name
ResolverGet(status_ok) ==
    /\ resolver.pc = "get"
    /\ LET e == resolver.files[resolver.i] IN
       resolver' =
          IF ~status_ok
          THEN [resolver EXCEPT !.pc = "raised", !.error = "FetchFailed"]
          ELSE [resolver EXCEPT !.pc = "body",
                                !.final = @ \ {e.name},
                                !.partial = @ \cup {e.name}]
    /\ UNCHANGED << regVars, diskVars, dlVars, histVars, mgrVars, envVars, cleanCall,
                    readerSeen, inv, xfer, handleVars, gdrive >>

\* download_with_progress: the whole body arrives, or the transfer breaks
\* (requests.RequestException becomes Exception; nothing is removed).
ResolverBody(complete) ==
    /\ resolver.pc = "body"
    /\ LET e == resolver.files[resolver.i] IN
       resolver' =
          IF complete
          THEN [resolver EXCEPT !.pc = "entry", !.i = @ + 1,
                                !.final = @ \cup {e.name},
                                !.partial = @ \ {e.name}]
          ELSE [resolver EXCEPT !.pc = "raised", !.error = "FetchFailed"]
    /\ UNCHANGED << regVars, diskVars, dlVars, histVars, mgrVars, envVars, cleanCall,
                    readerSeen, inv, xfer, handleVars, gdrive >>

NextResolvers ==
    \/ \E cls \in ResolverClasses, a \in BOOLEAN, files \in Manifests :
          ResolverDownload(cls, a, files)
    \/ \E space \in {"enough", "short"} : ResolverEntry(space)
    \/ \E s \in BOOLEAN : ResolverGet(s)
    \/ \E c \in BOOLEAN : ResolverBody(c)

SpecResolvers == Init /\ [][NextResolvers]_vars

(***************************************************************************)
(* The persistent-identifier resolvers and the sources they accept.        *)
(***************************************************************************)
FigshareDoi == <<"10.6084/m9.figshare.", "1">>
FigshareUrl == <<"https://", "figshare.com", "x">>
FigshareId == <<"figshare://", "1">>
DataverseId == <<"dataverse://", "x">>
DataverseUrl == <<"https://", "dataverse.harvard.edu", "x">>
DataverseDoi == <<"10.7910/DVN/", "x">>

PidSources ==
    { FigshareDoi, FigshareUrl, FigshareId, DataverseId, DataverseUrl, DataverseDoi,
      ZenodoDoi, ZenodoUrl, HttpUrl, PlainSource }

\* FigshareProvider.can_handle: the DOI with its digits, "figshare.com"
\* anywhere, or the figshare:// prefix.
FigshareCanHandle(source) ==
    \/ ContainsAdjacent(source, "10.6084/m9.figshare.", "1")
    \/ Contains(source, "figshare.com")
    \/ (Len(source) > 0 /\ source[1] = "figshare://")

\* DataverseProvider.can_handle: the dataverse:// prefix, a known host in
\* the netloc, the DVN DOI, or persistentId= with "dataverse" in the text.
DataverseCanHandle(source) ==
    \/ (Len(source) > 0 /\ source[1] = "dataverse://")
    \/ (Len(source) > 1 /\ source[1] \in {"https://", "http://"}
                        /\ source[2] = "dataverse.harvard.edu")
    \/ ContainsAdjacent(source, "10.7910/DVN/", "x")
    \/ (Contains(source, "persistentId=") /\ Contains(source, "dataverse.harvard.edu"))

PidResolvers == {"ZenodoProvider", "FigshareProvider", "DataverseProvider"}

PidCanHandle(cls, source) ==
    CASE cls = "ZenodoProvider" -> ZenodoCanHandle(source)
      [] cls = "FigshareProvider" -> FigshareCanHandle(source)
      [] cls = "DataverseProvider" -> DataverseCanHandle(source)

NextPidDispatch ==
    \/ \E cls \in ProviderClasses : Register(cls)
    \/ ImportDownloader
    \/ ClearRegistry
    \/ \E s \in PidSources, c \in RegistryConfigs :
          GetProviderCall(s, c, DestinationOf(c).path)

SpecPidDispatch == InitRegistry /\ [][NextPidDispatch]_vars

(***************************************************************************)
(* GoogleDriveProvider.download and the process working directory.         *)
(***************************************************************************)
GDriveDests == { <<"data", "p1">>, <<"d1", "p1">>, <<"/", "w", "d1", "p1">> }
CallerDirs == { Cwd, <<"/", "w", "sub">>, <<"/", "home">> }

\* A path taken against a working directory.
ResolveAt(base, p) == IF IsAbsolute(p) THEN p ELSE base \o p

\* The embedding program changes directory between two downloads.
CallerChdir(d) ==
    /\ pc = "idle"
    /\ gdrive.pc \in {"idle", "returned", "raised"}
    /\ gdrive.cwd # d
    /\ gdrive' = [GDriveIdle EXCEPT !.cwd = d, !.before = d]
    /\ UNCHANGED << regVars, diskVars, dlVars, histVars, mgrVars, envVars, cleanCall,
                    readerSeen, inv, xfer, handleVars, resolver >>

\* download(): _ensure_destination_exists
GDriveDownload(dest) ==
    /\ pc = "idle"
    /\ gdrive.pc \in {"idle", "returned", "raised"}
    /\ gdrive' = [gdrive EXCEPT !.pc = "version", !.before = gdrive.cwd,
                                !.original_cwd = NoPath, !.dest = dest, !.result = "none",
                                !.later = NoOp]
    /\ UNCHANGED << regVars, diskVars, dlVars, histVars, mgrVars, envVars, cleanCall,
                    readerSeen, inv, xfer, handleVars, resolver >>

\* gdown --version; then original_cwd = os.getcwd()
GDriveVersion(installed) ==
    /\ gdrive.pc = "version"
    /\ gdrive' = IF installed
                 THEN [gdrive EXCEPT !.pc = "chdir", !.original_cwd = gdrive.cwd]
                 ELSE [gdrive EXCEPT !.pc = "raised", !.result = "tool_missing"]
    /\ UNCHANGED << regVars, diskVars, dlVars, histVars, mgrVars, envVars, cleanCall,
                    readerSeen, inv, xfer, handleVars, resolver >>

\* try: os.chdir(self.destination)
GDriveChdir(entered) ==
    /\ gdrive.pc = "chdir"
    /\ gdrive' = IF entered
                 THEN [gdrive EXCEPT !.pc = "run", !.cwd = ResolveAt(gdrive.cwd, gdrive.dest)]
                 ELSE [gdrive EXCEPT !.pc = "finally", !.result = "chdir_failed"]
    /\ UNCHANGED << regVars, diskVars, dlVars, histVars, mgrVars, envVars, cleanCall,
                    readerSeen, inv, xfer, handleVars, resolver >>

\* subprocess.run(['gdown', source]): exit 0, exit non-zero, or not started
GDriveRun(outcome) ==
    /\ gdrive.pc = "run"
    /\ gdrive' = [gdrive EXCEPT !.pc = "finally", !.result = outcome]
    /\ UNCHANGED << regVars, diskVars, dlVars, histVars, mgrVars, envVars, cleanCall,
                    readerSeen, inv, xfer, handleVars, resolver >>

\* As GDriveFinally, with the chdir back after the success message instead
\* of in a finally clause.
GDriveFinally_OnlyOnSuccess ==
    /\ gdrive.pc = "finally"
    /\ gdrive' = [gdrive EXCEPT !.pc = IF gdrive.result = "rc0" THEN "returned" ELSE "raised",
                                !.cwd = IF gdrive.result = "rc0" THEN gdrive.original_cwd
                                        ELSE @]
    /\ UNCHANGED << regVars, diskVars, dlVars, histVars, mgrVars, envVars, cleanCall,
                    readerSeen, inv, xfer, handleVars, resolver >>

\* finally: os.chdir(original_cwd)
GDriveFinally ==
    /\ gdrive.pc = "finally"
    /\ gdrive' = [gdrive EXCEPT !.pc = IF gdrive.result = "rc0" THEN "returned" ELSE "raised",
                                !.cwd = gdrive.original_cwd]
    /\ UNCHANGED << regVars, diskVars, dlVars, histVars, mgrVars, envVars, cleanCall,
                    readerSeen, inv, xfer, handleVars, resolver >>

\* The next spec of the batch: DatasetDownloader(config), its destination
\* resolved in the working directory the process is in.
LaterSpec(config) ==
    /\ pc = "idle"
    /\ gdrive.pc \in {"returned", "raised"}
    /\ gdrive.later = NoOp
    /\ gdrive' = [gdrive EXCEPT !.later =
                     [op |-> "destination", config |-> config,
                      path |-> ResolveAt(gdrive.cwd, DestinationOf(config).path)]]
    /\ UNCHANGED << regVars, diskVars, dlVars, histVars, mgrVars, envVars, cleanCall,
                    readerSeen, inv, xfer, handleVars, resolver >>

NextGDrive ==
    \/ \E c \in RegistryConfigs : LaterSpec(c)
    \/ \E d \in CallerDirs : CallerChdir(d)
    \/ \E dest \in GDriveDests : GDriveDownload(dest)
    \/ \E installed \in BOOLEAN : GDriveVersion(installed)
    \/ \E entered \in BOOLEAN : GDriveChdir(entered)
    \/ \E outcome \in {"rc0", "rc_nonzero", "cannot_start"} : GDriveRun(outcome)
    \/ GDriveFinally

SpecGDrive == Init /\ [][NextGDrive]_vars

(***************************************************************************)
(* Properties                                                              *)
(***************************************************************************)
\* C1: once a download() has fetched and cached a key, a later download()
\* with the same key (artifacts still on disk) returns without invoking a
\* provider, and returns the path the first call returned.
C1_SecondDownloadSamePath ==
    (pc = "returned" /\ memoRun.kind = "run" /\ memoRun.key = Key)
        => /\ invoked = 0
           /\ dlResult.via = "cache"
           /\ dlResult.path = memoRun.path

\* C2: every entry of the store belongs to a key whose latest fetch ran to
\* completion, and its destination exists and holds the complete artifact of
\* its source; a failed or interrupted fetch leaves no entry.
C2_EntryOnlyAfterCompleteFetch ==
    \A r \in store :
        /\ r.cache_key \in fetchOk
        /\ disk[r.destination_path].exists
        /\ r.config.src \in disk[r.destination_path].final

\* C2 witness: a fetch broke off and left its temporary or partial file at
\* a destination, while the store holds an entry of a completed download.
C2_Witness ==
    /\ pc = "idle"
    /\ store # {}
    /\ \E p \in Destinations : disk[p].tmp \cup disk[p].partial # {}

\* C3: when the cache check finds an entry whose recorded destination no
\* longer exists, it answers "not cached" (the download goes on to fetch,
\* never returns from the cache) and the entry is gone from the store.
C3_StaleEntryPurged ==
    checked = "stale"
        => /\ pc = "prepare" => RowsOf(store, Key) = {}
           /\ pc = "returned" => dlResult.via = "fetch"

\* C3 witness: the check has just met a stale entry and removed it.
C3_Witness ==
    /\ checked = "stale"
    /\ pc = "prepare"
    /\ RowsOf(store, Key) = {}
    /\ ~disk[Dest].exists

\* The destinations of the downloads of a log that returned, in log order.
RECURSIVE SuccessPaths(_)
SuccessPaths(log) ==
    IF log = << >> THEN << >>
    ELSE IF Head(log).result.kind = "path"
         THEN << Head(log).result.path >> \o SuccessPaths(Tail(log))
         ELSE SuccessPaths(Tail(log))

\* C4: when install() is over, the downloader has run for every spec of the
\* batch, in order, whatever the specs before it did; every download that
\* returned is in the result; with three specs whose second matches no
\* provider the result is the destinations of the first and the third.
C4_EverySpecProcessed ==
    mpc = "done" =>
        /\ Len(okLog) = Len(batch)
        /\ \A i \in 1..Len(batch) :
              /\ okLog[i].config = batch[i]
              /\ okLog[i].result.kind = "path"
                    => \E j \in 1..Len(results) : results[j] = okLog[i].result.path
        /\ ( /\ Len(batch) = 3
             /\ okLog[1].result.kind = "path"
             /\ okLog[2].result.kind = "error"
             /\ okLog[2].result.error = "NoProviderMatched"
             /\ okLog[3].result.kind = "path" )
              => results = << okLog[1].result.path, okLog[3].result.path >>

\* C4 witness: a batch of three, the second without a matching provider,
\* the first and the third downloaded.
C4_Witness ==
    /\ mpc = "done"
    /\ Len(batch) = 3
    /\ Len(okLog) = 3
    /\ okLog[1].result.kind = "path"
    /\ okLog[2].result.kind = "error"
    /\ okLog[2].result.error = "NoProviderMatched"
    /\ okLog[3].result.kind = "path"
    /\ Len(results) = 2

\* C5: at every point of install() the result list is exactly the
\* destinations of the downloads that returned, in iteration order, and no
\* step removes or reorders a path already in the list.
C5_ResultsAreSuccessesInOrder ==
    /\ [](mpc \in {"loop", "done"} => results = SuccessPaths(okLog))
    /\ [][ /\ Len(results) <= Len(results')
           /\ \A i \in 1..Len(results) : results'[i] = results[i] ]_vars

\* C5 witness: install() is over, an earlier spec succeeded and the last
\* one failed.
C5_Witness ==
    /\ mpc = "done"
    /\ Len(okLog) >= 2
    /\ okLog[1].result.kind = "path"
    /\ okLog[Len(okLog)].result.kind = "error"
    /\ results # << >>
    /\ results[1] = okLog[1].result.path

\* C6: a get_provider call that returns a provider returns the class at
\* the latest position of the registration order whose can_handle accepts
\* the source: no class registered after it accepts the source.
C6_LatestRegisteredMatchWins ==
    (lastSel # NoCall /\ lastSel.sel.kind = "provider") =>
        \E i \in 1..Len(providers) :
            /\ providers[i] = lastSel.sel.cls
            /\ CanHandle(providers[i], lastSel.source, lastSel.config, lastSel.dest)
            /\ \A j \in (i + 1)..Len(providers) :
                  ~CanHandle(providers[j], lastSel.source, lastSel.config, lastSel.dest)

\* C6 witness: two different registered classes accept the source and the
\* one registered later was returned.
C6_Witness ==
    /\ lastSel # NoCall
    /\ lastSel.sel.kind = "provider"
    /\ \E i \in 1..Len(providers) : \E j \in (i + 1)..Len(providers) :
          /\ providers[i] # providers[j]
          /\ CanHandle(providers[i], lastSel.source, lastSel.config, lastSel.dest)
          /\ CanHandle(providers[j], lastSel.source, lastSel.config, lastSel.dest)
          /\ lastSel.sel.cls = providers[j]
          /\ providers[i] = "HTTPProvider"

\* C7: download() fails with the no-provider error exactly when no
\* registered class accepts the source (an empty registry included): the
\* error lists every registered class, no provider was invoked, the store
\* has no entry for the key; and a download that reaches a fetch step has a
\* registered class accepting its source.
C7_NoMatchRaisesListingAll ==
    /\ (pc = "raised" /\ dlResult.kind = "error"
            /\ dlResult.error = "NoProviderMatched") =>
          /\ \A i \in 1..Len(providers) :
                ~CanHandle(providers[i], Src, cur, destination)
          /\ dlResult.available = providers
          /\ invoked = 0
          /\ provider = NoSelection
          /\ RowsOf(store, Key) = {}
    /\ pc \in {"http_request", "http_body", "http_verify", "external",
                "decompress", "save"} =>
          \E i \in 1..Len(providers) :
              CanHandle(providers[i], Src, cur, destination)

\* C7 witness: with the seven registered classes, a download of a source
\* none accepts has failed with the error naming all seven.
C7_Witness ==
    /\ pc = "raised"
    /\ dlResult.kind = "error"
    /\ dlResult.error = "NoProviderMatched"
    /\ providers = DownloaderRegistration
    /\ dlResult.available = DownloaderRegistration
    /\ Src = PlainSource

\* C8: two get_provider calls for the same source under the same
\* registrations give the same outcome and the same provider class,
\* whatever config and destination each call passed.
C8_SelectionDependsOnSourceOnly ==
    (lastSel # NoCall /\ memoSel # NoCall /\ lastSel.source = memoSel.source) =>
        /\ lastSel.sel.kind = memoSel.sel.kind
        /\ lastSel.sel.kind = "provider" => lastSel.sel.cls = memoSel.sel.cls

\* C8 witness: two calls for one source with different configs and
\* different destinations returned the same provider class.
C8_Witness ==
    /\ lastSel # NoCall
    /\ memoSel # NoCall
    /\ lastSel.source = memoSel.source
    /\ lastSel.config # memoSel.config
    /\ lastSel.dest # memoSel.dest
    /\ lastSel.sel.kind = "provider"
    /\ lastSel.sel.cls = memoSel.sel.cls

\* C9: with the registration of the downloader module and ENABLED False,
\* the provider selected by a download() is never LibraryProvider and no
\* source has been executed as code.
C9_LibraryNeverSelectedByDefault ==
    (providers = DownloaderRegistration /\ ~libraryEnabled) =>
        /\ provider # NoSelection => provider.cls # "LibraryProvider"
        /\ ~executed

\* C9 witness: a download whose source is an import command has been
\* through provider selection under the default registration and was
\* refused for lack of a matching provider.
C9_Witness ==
    /\ providers = DownloaderRegistration
    /\ ~libraryEnabled
    /\ pc = "raised"
    /\ Src = ImportCmd
    /\ dlResult.kind = "error"
    /\ dlResult.error = "NoProviderMatched"
    /\ ~executed

\* C10: the verification step of a generic fetch whose bytes do not hash
\* to the declared checksum removes the temporary file, leaves the final
\* artifacts as they were, issues no further request, writes nothing to the
\* store and fails with the checksum-mismatch error; the failed download
\* has no entry in the store.
C10_ChecksumMismatchFailsClean ==
    /\ [][ (pc = "http_verify" /\ ChecksumMismatch(http.bytes, cur) /\ pc' # "idle")
            => /\ pc' = "raised"
               /\ dlResult' = Raised("ChecksumMismatch")
               /\ Src \notin disk'[Dest].tmp
               /\ disk'[Dest].final = disk[Dest].final
               /\ http' = http
               /\ store' = store ]_vars
    /\ []( (pc = "raised" /\ dlResult = Raised("ChecksumMismatch"))
            => /\ RowsOf(store, Key) = {}
               /\ Src \notin disk[Dest].tmp
               /\ Key \notin fetchOk )

\* C10 witness: a download with a declared checksum has failed on a
\* mismatch after a single request.
C10_Witness ==
    /\ pc = "raised"
    /\ dlResult = Raised("ChecksumMismatch")
    /\ http.bytes = "bad"
    /\ http.requests = 1
    /\ RowsOf(store, Key) = {}

\* Two specs agree on src, projectName and version: each field is present
\* in both with the same value or absent from both.
SameCritical(c1, c2) ==
    \A f \in {"src", "projectName", "version"} :
        /\ f \in DOMAIN c1 <=> f \in DOMAIN c2
        /\ f \in DOMAIN c1 => c1[f] = c2[f]

\* C11: a spec that agrees with the spec of a stored entry on src,
\* projectName and version has that entry's key, whatever its other fields;
\* and is_cached for such a spec answers True when the entry's destination
\* exists.
C11_CosmeticFieldsKeepKeyAndHit ==
    /\ [](\A r \in store : \A c \in CacheConfigs :
            SameCritical(r.config, c) => r.cache_key = CacheKey(c))
    /\ [][ ( /\ lastOp'.op = "is_cached"
             /\ \E r \in store : /\ SameCritical(r.config, lastOp'.config)
                                  /\ PathExists(r.destination_path) )
           => lastOp'.result = TRUE ]_vars

\* C11 witness: is_cached answered True for a spec whose dst and recursive
\* fields differ from those of the spec the entry was saved for.
C11_Witness ==
    /\ lastOp.op = "is_cached"
    /\ lastOp.result = TRUE
    /\ \E r \in store :
          /\ r.cache_key = CacheKey(lastOp.config)
          /\ r.config # lastOp.config
          /\ DOMAIN r.config # DOMAIN lastOp.config

\* C12: a spec of the same project that differs from a stored entry's spec
\* in src or in version (present against absent included) has another key;
\* download() returns from the cache only on an entry saved for a spec with
\* the same src and version, and otherwise invokes a provider.
C12_ContentChangeRefetches ==
    /\ \A r \in store : \A c \in VersionConfigs :
          ~SameCritical(r.config, c) => r.cache_key # CacheKey(c)
    /\ (pc = "returned" /\ dlResult.via = "cache")
          => \E r \in store : SameCritical(r.config, cur)
    /\ pc = "returned" => (dlResult.via = "cache" \/ invoked = 1)

\* C12 witness: the data of another version of the same src is cached and
\* on disk, and the download of this version has invoked a provider.
C12_Witness ==
    /\ pc = "returned"
    /\ dlResult.via = "fetch"
    /\ invoked = 1
    /\ "version" \in DOMAIN cur
    /\ \E r \in store :
          /\ r.config.src = cur.src
          /\ "version" \in DOMAIN r.config
          /\ r.config.version # cur.version
          /\ PathExists(r.destination_path)
    /\ \E r \in store :
          /\ r.config.src = cur.src
          /\ "version" \notin DOMAIN r.config

\* C13: clean_orphaned_entries leaves exactly the rows whose
\* destination_path exists on disk, each with all its fields as before, and
\* returns the number of rows it removed.
C13_OrphansRemovedExactly ==
    [][ lastOp'.op = "clean_orphaned_entries"
          => /\ store' = { r \in store : PathExists(r.destination_path) }
             /\ lastOp'.result = Cardinality(store) - Cardinality(store')
             /\ disk' = disk ]_vars

\* C13 witness: a clean-up has removed one row and kept another.
C13_Witness ==
    /\ lastOp.op = "clean_orphaned_entries"
    /\ lastOp.result = 1
    /\ store # {}
    /\ \A r \in store : PathExists(r.destination_path)

\* C14: a download() that returns from the cache has selected and invoked
\* no provider and entered neither extraction nor save_cache; the step of
\* the cache hit leaves the disk alone, keeps every row of another key, and
\* changes nothing of the hit row but its last_accessed.
C14_HitOnlyBumpsLastAccessed ==
    /\ []( (pc = "returned" /\ dlResult.via = "cache")
            => /\ provider = NoSelection
               /\ invoked = 0
               /\ stages = {}
               /\ checked = "present" )
    /\ [][ (pc = "check" /\ pc' = "returned")
            => /\ disk' = disk
               /\ Cardinality(store') = Cardinality(store)
               /\ \A r \in store : r.cache_key # Key => r \in store'
               /\ \A r \in store' :
                     \/ r \in store
                     \/ /\ r.cache_key = Key
                        /\ r.last_accessed = "later"
                        /\ [r EXCEPT !.last_accessed = "at_save"] \in store ]_vars

\* C14 witness: a download returned from the cache; its row, saved for a
\* spec with other cosmetic fields, has a later last_accessed, and another
\* key has a row too.
C14_Witness ==
    /\ pc = "returned"
    /\ dlResult.via = "cache"
    /\ \E r \in store :
          /\ r.cache_key = Key
          /\ r.last_accessed = "later"
          /\ r.config # cur
    /\ \E r \in store : r.cache_key # Key

\* C15: once the provider's download() has returned, download() never
\* raises: whether or not extraction or save_cache raises it returns the
\* destination path, and install() appends that path to its results.
C15_LateFailuresOnlyWarn ==
    /\ [](stages # {} => pc # "raised")
    /\ [][ /\ pc \in {"decompress", "save"}
              => /\ pc' \in {"save", "returned"}
                 /\ pc' = "returned"
                      => /\ dlResult'.kind = "path"
                         /\ dlResult'.path = destination
           /\ (mpc = "loop" /\ warnings # {} /\ pc' = "idle")
              => results' = Append(results, destination) ]_vars

\* C15 witness: a download of a batch returned its path although both the
\* extraction and save_cache raised.
C15_Witness ==
    /\ mpc = "loop"
    /\ pc = "returned"
    /\ warnings = {"extract", "save"}
    /\ dlResult.path = destination

\* C16: an unusable cache store never makes a download fail: no download()
\* ends with an error of the cache store, and with the store unusable a
\* download that ends raised ends so for a reason of the spec or the fetch.
C16_StoreFailureNeverFailsSpec ==
    (pc = "raised" /\ storeMode # "ok") => dlResult.error # "CacheStoreError"

\* C17: the computed destination is <root>/<projectName>, the root being
\* the forced server destination in server mode; else ../data beside the
\* requirement file's directory when dataLayout is "neurolibre" and the
\* requirement file exists; else the declared dst, taken against the
\* requirement file's directory when it is relative and a requirement path
\* is given; else ./data.
C17_DestinationPrecedence ==
    cdCall.op = "compute_destination" =>
        LET c == cdCall.config
            req == cdCall.requirement_path
            name == <<c.projectName>>
            layout == /\ "dataLayout" \in DOMAIN c
                      /\ c.dataLayout = "neurolibre"
                      /\ cdCall.requirement_exists
            declared == "dst" \in DOMAIN c
        IN  /\ cdCall.result.ok
            /\ cdCall.server_mode
                 => cdCall.result.path = cdCall.server_destination \o name
            /\ (~cdCall.server_mode /\ layout)
                 => cdCall.result.path
                      = Parent(Parent(Resolve(req))) \o <<"data">> \o name
            /\ (~cdCall.server_mode /\ ~layout /\ declared)
                 => /\ (IsAbsolute(c.dst) \/ req = NoPath)
                         => cdCall.result.path = c.dst \o name
                    /\ (~IsAbsolute(c.dst) /\ req # NoPath)
                         => cdCall.result.path
                              = Resolve(Parent(req)) \o c.dst \o name
            /\ (~cdCall.server_mode /\ ~layout /\ ~declared)
                 => cdCall.result.path = <<"data">> \o name

\* C17 witness: outside server mode, a spec with dataLayout "neurolibre",
\* an existing requirement file in a subdirectory and a declared dst gets
\* the layout's data root, not its dst.
C17_Witness ==
    /\ cdCall.op = "compute_destination"
    /\ ~cdCall.server_mode
    /\ cdCall.requirement_exists
    /\ cdCall.requirement_path = <<"sub", "data_requirement.json">>
    /\ cdCall.config = [src |-> HttpUrl, projectName |-> "p1",
                        dataLayout |-> "neurolibre", dst |-> <<"d1">>]
    /\ cdCall.result.path = <<"/", "w", "data", "p1">>

\* The required fields a spec can lack: projectName; src absent or empty.
NoName(config) == "projectName" \notin DOMAIN config

NoSrc(config) == "src" \notin DOMAIN config \/ config.src = EmptySource

\* C18: a download of a spec without projectName ends at construction with
\* the missing-projectName error; a download of a spec with projectName
\* whose src is absent or empty ends in download() with the missing-src
\* error; in neither is a provider selected or invoked, extraction or
\* save_cache entered, or any row of the store written.
C18_MissingFieldFailsEarly ==
    /\ []( (pc # "idle" /\ (NoName(cur) \/ NoSrc(cur)))
            => /\ provider = NoSelection
               /\ invoked = 0
               /\ stages = {}
               /\ pc \in {"check", "prepare", "raised"}
               /\ NoName(cur) => /\ pc = "raised"
                                 /\ dlResult = Raised("MissingProjectName")
                                 /\ checked = "none"
               /\ (~NoName(cur) /\ pc = "raised")
                    => /\ dlResult = Raised("MissingSrc")
                       /\ checked # "none" )
    /\ [][ (pc # "idle" /\ (NoName(cur) \/ NoSrc(cur))) => store' = store ]_vars

\* C18 witness: download() of a spec whose src is empty raised the
\* missing-src error while the store holds rows of earlier downloads.
C18_Witness ==
    /\ pc = "raised"
    /\ "src" \in DOMAIN cur
    /\ cur.src = EmptySource
    /\ dlResult = Raised("MissingSrc")
    /\ store # {}

\* C19: whatever save_cache, is_cached, invalidate_cache,
\* clean_orphaned_entries, clear_all and migrations have run, the store
\* holds at most one row per cache key.
C19_OneRowPerKey ==
    \A r1, r2 \in store : r1.cache_key = r2.cache_key => r1 = r2

\* C19 witness: save_cache has just replaced the row of a key, written for
\* another destination or another spec of the same key, while another key
\* has its row.
C19_Witness ==
    /\ lastOp.op = "save_cache"
    /\ lastOp.replaced
    /\ ~lastOp.again
    /\ Cardinality(store) = 2
    /\ Cardinality({ r.cache_key : r \in store }) = 2

\* C20: a save_cache that repeats the call just before it (same spec, same
\* destination, nothing else in between) leaves exactly one row for the
\* key, with the destination_path, spec snapshot, size_bytes and file_count
\* the first call wrote, and leaves the rows of every other key as they were.
C20_SaveCacheIdempotent ==
    [][ (lastOp'.op = "save_cache" /\ lastOp'.again)
          => LET key == CacheKey(lastOp'.config) IN
             /\ RemoveEntry(store', key) = RemoveEntry(store, key)
             /\ Cardinality(RowsOf(store', key)) = 1
             /\ \A n \in RowsOf(store', key) :
                   \E o \in RowsOf(store, key) :
                      /\ n.destination_path = o.destination_path
                      /\ n.config = o.config
                      /\ n.size_bytes = o.size_bytes
                      /\ n.file_count = o.file_count ]_vars

\* C20 witness: save_cache was repeated for a directory that holds an
\* artifact, with a row of another key in the store.
C20_Witness ==
    /\ lastOp.op = "save_cache"
    /\ lastOp.again
    /\ \E r \in store :
          /\ r.cache_key = CacheKey(lastOp.config)
          /\ r.size_bytes > 0
    /\ \E r \in store : r.cache_key # CacheKey(lastOp.config)

\* C21: GlobalCacheManager.invalidate_cache(spec) leaves no row of the
\* spec's key, leaves every row of another key as it was, touches no
\* directory, and returns True exactly when the key had a row before.
C21_InvalidateRemovesOnlyItsKey ==
    [][ lastOp'.op = "invalidate_cache"
          => LET key == CacheKey(lastOp'.config) IN
             /\ \A r \in store' : r.cache_key # key
             /\ \A r \in store : r.cache_key # key => r \in store'
             /\ store' \subseteq store
             /\ lastOp'.result = (\E r \in store : r.cache_key = key)
             /\ disk' = disk ]_vars

\* C21 witness: invalidate_cache returned True and a row of another key is
\* still in the store.
C21_Witness ==
    /\ lastOp.op = "invalidate_cache"
    /\ lastOp.result
    /\ \E r \in store : r.cache_key # CacheKey(lastOp.config)

\* C22: once DatasetDownloader.invalidate_cache() has run on a cached spec,
\* is_cached() of that spec answers False, and the next download() of the
\* spec that returns has fetched through a provider.
C22_InvalidateForcesRedownload ==
    (lastOp.op = "downloader_invalidate" /\ lastOp.was_cached)
        => /\ pc = "idle"
              => ~IsCached(store, lastOp.config, DestinationOf(lastOp.config).path).hit
           /\ (pc = "returned" /\ cur = lastOp.config)
              => dlResult.via = "fetch"

\* C23: clear_all() empties the store and returns the number of rows it
\* held; every directory, its artifacts and its local cache file are as
\* they were before the call.
C23_ClearAllKeepsData ==
    [][ lastOp'.op = "clear_all"
          => /\ store' = {}
             /\ lastOp'.result = Cardinality(store)
             /\ disk' = disk
             /\ localCaches' = localCaches ]_vars

\* C23 witness: clear_all removed two rows and a destination directory
\* with its artifact is still on disk.
C23_Witness ==
    /\ lastOp.op = "clear_all"
    /\ lastOp.result = 2
    /\ store = {}
    /\ \E p \in Destinations : disk[p].exists /\ disk[p].final # {}

\* C24: migrate_all never raises; it counts every file it found as
\* migrated or as failed, and every well-formed record among them has the
\* row of its key in the store afterwards.
C24_MigrateAllSkipsMalformed ==
    lastOp.op = "migrate_all"
        => /\ ~lastOp.raised
           /\ lastOp.migrated + lastOp.failed = Cardinality(lastOp.found)
           /\ \A f \in lastOp.found :
                 ("config" \in DOMAIN f /\ f.config # << >> /\ "src" \in DOMAIN f.config)
                     => \E r \in store : r.cache_key = CacheKey(f.config)

\* The positions of download() inside HTTPProvider.download.
HttpPcs == {"http_request", "http_body", "http_verify"}

\* C25: the HTTP fetch issues at most 3 requests; the first failed attempt
\* is followed by a delay of 5, the second by one of 10, and a request is
\* issued only when every attempt before it failed and took its delay; the
\* step that ends the fetch in failure takes no delay, and a third
\* transient failure ends it with a fetch failure.
C25_BoundedRetriesWithBackoff ==
    /\ []( /\ http.requests <= 3
           /\ http.delays \in { << >>, <<5>>, <<5, 10>> }
           /\ pc = "http_request" => Len(http.delays) = http.requests
           /\ pc \in {"http_body", "http_verify"}
                => Len(http.delays) = http.requests - 1 )
    /\ [][ (pc \in HttpPcs /\ pc' = "raised")
              => /\ http'.delays = http.delays
                 /\ (http'.requests = 3 /\ pc # "http_verify"
                        /\ http'.refused = "no" /\ http'.space = "ok"
                        /\ dlResult' # Raised("WriteError"))
                      => dlResult' = Raised("FetchFailed") ]_vars

\* C25 witness: the fetch failed after three requests and the delays 5, 10,
\* none of them refused with 404 or 403.
C25_Witness ==
    /\ pc = "raised"
    /\ http.requests = 3
    /\ http.delays = <<5, 10>>
    /\ http.refused = "no"
    /\ dlResult = Raised("FetchFailed")

\* C26: a 404 or 403 response ends the fetch at once: the step that
\* receives it issues that one request, takes no delay, leaves the disk
\* alone and raises; no request follows it.
C26_RefusalIsTerminal ==
    /\ [](http.refused # "no" => (pc = "raised" /\ dlResult = Raised("FetchFailed")))
    /\ [][ (http.refused = "no" /\ http'.refused # "no")
              => /\ http'.requests = http.requests + 1
                 /\ http'.delays = http.delays
                 /\ pc' = "raised"
                 /\ disk' = disk ]_vars

\* C26 witness: the second request, made after one transient failure, was
\* answered 404 and the fetch raised with the single delay of the retry.
C26_Witness ==
    /\ pc = "raised"
    /\ http.refused = "not_found"
    /\ http.requests = 2
    /\ http.delays = <<5>>

\* C27: inside the HTTP fetch the final artifacts change only in the step
\* that ends the fetch successfully; that step starts after the whole body
\* was written and a declared checksum matched, and it moves the temporary
\* file to the final path.  A failed attempt that had opened the temporary
\* file leaves none behind, one that had not leaves the disk as it was.
C27_FinalOnlyByRename ==
    [][ (pc \in HttpPcs)
          => /\ \A p \in Destinations : (p # Dest => disk'[p] = disk[p])
             /\ pc' = "decompress"
                  => /\ pc = "http_verify"
                     /\ http.bytes \in {"good", "bad"}
                     /\ "checksum" \in DOMAIN cur => http.bytes = "good"
                     /\ Src \in disk[Dest].tmp
                     /\ disk'[Dest].final = disk[Dest].final \cup {Src}
                     /\ Src \notin disk'[Dest].tmp
             /\ pc' # "decompress" => disk'[Dest].final = disk[Dest].final
             /\ (pc \in {"http_body", "http_verify"} /\ pc' \in {"raised", "http_request"})
                  => Src \notin disk'[Dest].tmp
             /\ (pc = "http_request" /\ pc' \in {"raised", "http_request"})
                  => disk' = disk ]_vars

\* C27 witness: after a failed first attempt the second one wrote the whole
\* body, the declared checksum matched, and the artifact is at its final
\* path with no temporary file beside it.
C27_Witness ==
    /\ pc = "decompress"
    /\ provider.cls = "HTTPProvider"
    /\ "checksum" \in DOMAIN cur
    /\ http.requests = 2
    /\ Src \in disk[Dest].final
    /\ Src \notin disk[Dest].tmp

\* C28 as stated: whenever the free space cannot hold the response, the
\* fetch has failed with the insufficient-disk-space error and has written
\* nothing.
C28_SpaceCheckedBeforeWriting ==
    http.space # "ok"
        => /\ pc = "raised"
           /\ dlResult = Raised("InsufficientDiskSpace")
           /\ http.bytes = "none"

\* C28 amended: when the response reports a content length the free space
\* cannot hold, the step that receives it raises the insufficient-disk-space
\* error, leaves the disk as it was and is not followed by a retry or a
\* delay; when no content length is reported no check is made, the
\* temporary file is opened, and the shortage ends the fetch as a write
\* error that removes the temporary file.
C28_SizedSpaceCheckBeforeWriting ==
    /\ [](http.space = "short_sized"
            => /\ pc = "raised"
               /\ dlResult = Raised("InsufficientDiskSpace")
               /\ http.bytes = "none")
    /\ [](http.space = "short_unsized"
            => /\ pc \in {"http_body", "raised"}
               /\ pc = "raised" => /\ dlResult = Raised("WriteError")
                                   /\ Src \notin disk[Dest].tmp)
    /\ [][ (http.space # "short_sized" /\ http'.space = "short_sized")
              => /\ disk' = disk
                 /\ http'.requests = http.requests + 1
                 /\ http'.delays = http.delays ]_vars

\* C28 witness: the second request got a response whose reported length the
\* free space cannot hold; the fetch raised and no temporary file exists.
C28_Witness ==
    /\ pc = "raised"
    /\ http.space = "short_sized"
    /\ http.requests = 2
    /\ disk[Dest].tmp = {}

\* The providers that delegate the fetch to an external tool.
ExternalClasses ==
    { "S3Provider", "DataladProvider", "ZenodoProvider", "OSFProvider",
      "GoogleDriveProvider" }

C30_StepsInOrder ==
    /\ []( pc # "idle"
            => /\ pc \notin {"check", "raised"} => checked # "none"
               /\ provider # NoSelection
                    => /\ checked \in {"miss", "stale"}
                       /\ disk[Dest].exists
                       /\ invoked = 1
               /\ provider = NoSelection => invoked = 0
               /\ "extract" \in stages
                    => /\ provider # NoSelection
                       /\ Key \in fetchOk
               /\ "save" \in stages => "extract" \in stages
               /\ pc = "raised" => stages = {}
               /\ (pc = "returned" /\ dlResult.via = "fetch")
                    => stages = {"extract", "save"} )
    /\ [][ /\ pc = "check" => pc' \in {"prepare", "returned", "idle"}
           /\ pc = "prepare" => pc' \in {"http_request", "external", "raised", "idle"}
           /\ pc \in {"http_request", "http_body", "http_verify", "external"}
                => pc' \in {"http_request", "http_body", "http_verify", "external",
                            "decompress", "raised", "idle"}
           /\ pc = "decompress" => pc' \in {"save", "idle"}
           /\ pc = "save" => pc' \in {"returned", "idle"}
           /\ pc \in {"returned", "raised"} => pc' = "idle" ]_vars

\* C30 witness: a download whose cache row was stale went through
\* selection, fetch, extraction and save_cache and returned.
C30_Witness ==
    /\ pc = "returned"
    /\ checked = "stale"
    /\ provider # NoSelection
    /\ stages = {"extract", "save"}
    /\ dlResult.via = "fetch"

(***************************************************************************)
(* C31: every mutating store operation is one transaction.  A reader on    *)
(* another handle sees the store before or after a running                 *)
(* clean_orphaned_entries call: each listing it obtains holds either all   *)
(* of the rows that call deletes or none of them.                          *)
(***************************************************************************)
C31_ReaderSeesBeforeOrAfter ==
    \A seen \in readerSeen :
        \/ cleanCall.removed \subseteq seen
        \/ seen \cap cleanCall.removed = {}

(***************************************************************************)
(* C32: two download() calls on the same spec, interleaved in any way.     *)
(* The store never holds two rows of one key; once both calls have run     *)
(* save_cache, the row of the spec's key is the row one of the two wrote;  *)
(* no step of either call alters the rows of other keys.                   *)
(***************************************************************************)
BothSaved == \A i \in Invocations : inv[i].pc = "done" /\ inv[i].wrote # {}

OtherRows(st) == { r \in st : r.cache_key # RaceKey }

C32_ConcurrentSavesLastWriterWins ==
    /\ [](\A r1, r2 \in store : r1.cache_key = r2.cache_key => r1 = r2)
    /\ [](BothSaved => \E i \in Invocations : RowsOf(store, RaceKey) = inv[i].wrote)
    /\ [][ (inv' # inv) => OtherRows(store') = OtherRows(store) ]_vars

\* Both calls missed with no row to purge, both fetched and both saved,
\* while a row of another key is in the store.
C32_Witness ==
    /\ BothSaved
    /\ \A i \in Invocations : inv[i].purged = {} /\ inv[i].result = "fetched"
    /\ OtherRows(store) # {}
    /\ Cardinality(RowsOf(store, RaceKey)) = 1

(***************************************************************************)
(* C33: a purge deletes a row only if its destination_path is missing at   *)
(* the moment of the deletion.  No is_cached call and no                   *)
(* clean_orphaned_entries call has deleted a row whose data was on disk    *)
(* when the DELETE ran (a row saved again by another call after the purge  *)
(* was decided).                                                           *)
(***************************************************************************)
C33_PurgeOnlyMissingData ==
    /\ \A i \in Invocations : inv[i].live = {}
    /\ cleanCall.live = {}

(***************************************************************************)
(* C34: two calls fetching the same HTTP spec into the same destination.   *)
(* The file at the final artifact path always holds a complete transfer:   *)
(* whenever the final name exists, every chunk of the body is in it.       *)
(***************************************************************************)
C34_FinalPathNeverPartial ==
    xfer.final # 0 => Complete(xfer.final)

(***************************************************************************)
(* C35: a download() that returns through a cache hit returns the          *)
(* destination_path recorded in the row that made the hit (compared as     *)
(* resolved paths), and that path exists on disk.                          *)
(***************************************************************************)
C35_HitReturnsRecordedPath ==
    (pc = "returned" /\ dlResult.kind = "path" /\ dlResult.via = "cache")
        => /\ \E r \in RowsOf(store, Key) : r.destination_path = Resolve(dlResult.path)
           /\ PathExists(dlResult.path)

(***************************************************************************)
(* C36: every operation on a GlobalCacheManager handle acts on the         *)
(* database under that handle's own cache_dir and does not fail because    *)
(* of what other handles of the thread did before (created, used, closed,  *)
(* collected).                                                             *)
(***************************************************************************)
C36_HandleUsesOwnDatabase ==
    handleOp.op \in {"init", "save_cache", "invalidate_cache"}
        => /\ handleOp.db = handleOp.own
           /\ ~handleOp.failed

(***************************************************************************)
(* C37: a migrate_local_cache call deletes no file but its own, and        *)
(* deletes that one only when remove_after is set, the call returns True   *)
(* and the store then holds a row of the key of the file's config; a call  *)
(* without remove_after, or one that returns False or raises, deletes      *)
(* nothing.                                                                *)
(***************************************************************************)
C37_LegacyFileDeletedOnlyAfterMigration ==
    [][ (lastOp'.op = "migrate_local_cache")
          => LET f == lastOp'.file
                 deleted == localCaches \ localCaches'
             IN  /\ deleted \subseteq {f}
                 /\ deleted # {}
                      => /\ lastOp'.remove_after
                         /\ lastOp'.result
                         /\ "config" \in DOMAIN f
                         /\ RowsOf(store', CacheKey(f.config)) # {}
                 /\ (~lastOp'.remove_after \/ ~lastOp'.result) => deleted = {} ]_vars

\* A call with remove_after migrated a file and deleted it; another legacy
\* file is still in place.
C37_Witness ==
    /\ lastOp.op = "migrate_local_cache"
    /\ lastOp.remove_after
    /\ lastOp.result
    /\ lastOp.file \notin localCaches
    /\ RowsOf(store, CacheKey(lastOp.file.config)) # {}
    /\ localCaches # {}

(***************************************************************************)
(* C38: the Figshare and Dataverse providers fetch every manifest entry    *)
(* as the generic HTTP fetch does.  No file under a final name is ever     *)
(* partially written (the body goes to a temporary name first), a failed   *)
(* download leaves none behind, and the body of an entry is written only   *)
(* after the free space was checked for it.                                *)
(***************************************************************************)
C38_ResolversFetchLikeHttp ==
    /\ resolver.partial = {}
    /\ resolver.pc = "body" => resolver.files[resolver.i].name \in resolver.checked

(***************************************************************************)
(* C39: with the registrations of the downloader module in place, a        *)
(* source accepted by the can_handle of a persistent-identifier resolver   *)
(* (Zenodo, Figshare, Dataverse) is dispatched by get_provider to a        *)
(* resolver that accepts it: not to the HTTP provider, not to the          *)
(* no-provider error.                                                      *)
(***************************************************************************)
C39_ResolverSourcesReachResolver ==
    (providers = DownloaderRegistration /\ lastSel # NoCall
       /\ \E cls \in PidResolvers : PidCanHandle(cls, lastSel.source))
        => /\ lastSel.sel.kind = "provider"
           /\ lastSel.sel.cls \in PidResolvers
           /\ PidCanHandle(lastSel.sel.cls, lastSel.source)

(***************************************************************************)
(* C40: when GoogleDriveProvider.download() has returned or raised, the    *)
(* process working directory is the one it was called in, so the default   *)
(* destination ./data/<projectName> of a later spec resolves to the same   *)
(* directory as before the call.                                           *)
(***************************************************************************)
C40_WorkingDirectoryRestored ==
    gdrive.pc \in {"returned", "raised"}
        => /\ gdrive.cwd = gdrive.before
           /\ gdrive.later # NoOp
                => gdrive.later.path
                     = ResolveAt(gdrive.before, DestinationOf(gdrive.later.config).path)

\* gdown exited non-zero after the provider had changed into a destination
\* other than the caller's directory, and the caller is back where it was.
C40_Witness ==
    /\ gdrive.pc = "raised"
    /\ gdrive.result = "rc_nonzero"
    /\ ResolveAt(gdrive.before, gdrive.dest) # gdrive.before
    /\ gdrive.before # Cwd
    /\ gdrive.cwd = gdrive.before
    /\ gdrive.later # NoOp
    /\ ~IsAbsolute(DestinationOf(gdrive.later.config).path)

====
